---- MODULE Spec2Model ----
(***************************************************************************)
(* Content aggregation and briefing pipeline of the four monitor scripts:  *)
(*   medicare_access_monitor_github.py  (policy briefing, Medicare rules)  *)
(*   pharmacy_ai_monitor_github.py      (policy briefing, pharmacy rules)  *)
(*   merlin_accuracy_monitor.py         (trend analysis of a sheet)        *)
(*   daily_leadership.py                (insight only)                     *)
(*                                                                         *)
(* Text is a sequence of one-character strings, so that lower-casing,      *)
(* substring search, regular-expression clean-up and string comparison are *)
(* computed character by character, as Python computes them.               *)
(***************************************************************************)
EXTENDS Integers, Sequences, FiniteSets, TLC

(***************************************************************************)
(* Characters.                                                             *)
(***************************************************************************)

\* The printable ASCII characters in code-point order (the double quote, the
\* backslash and the backquote are left out of the alphabet).
CharTable ==
    <<" ","!","#","$","%","&","'","(",")","*","+",",","-",".","/",
      "0","1","2","3","4","5","6","7","8","9",":",";","<","=",">","?","@",
      "A","B","C","D","E","F","G","H","I","J","K","L","M","N","O","P","Q","R","S","T","U","V","W","X","Y","Z","[","]","^","_",
      "a","b","c","d","e","f","g","h","i","j","k","l","m","n","o","p","q","r","s","t","u","v","w","x","y","z","{","|","}","~">>

UpperChars == <<"A","B","C","D","E","F","G","H","I","J","K","L","M","N","O","P","Q","R","S","T","U","V","W","X","Y","Z">>

LowerChars == <<"a","b","c","d","e","f","g","h","i","j","k","l","m","n","o","p","q","r","s","t","u","v","w","x","y","z">>

DigitChars == <<"0","1","2","3","4","5","6","7","8","9">>

SeqRange(s) == {s[i] : i \in 1..Len(s)}

UpperSet == SeqRange(UpperChars)

LowerSet == SeqRange(LowerChars)

DigitSet == SeqRange(DigitChars)

\* Upper-case letter to lower-case letter, and back.
ToLowerTable ==
    { <<UpperChars[i], LowerChars[i]>> : i \in 1..Len(UpperChars) }

\* Code-point rank of each character of the alphabet.
OrdTable == { <<CharTable[i], i>> : i \in 1..Len(CharTable) }

\* Position of a character in the code-point order: str comparison compares
\* code points.
Ord(c) == (CHOOSE p \in OrdTable : p[1] = c)[2]

\* str.lower() on one character.
LowerChar(c) ==
    IF c \in UpperSet THEN (CHOOSE p \in ToLowerTable : p[1] = c)[2] ELSE c

\* Mutant of Lower: the text is compared as written.
Lower_asWritten(s) == [i \in 1..Len(s) |-> s[i]]

\* str.lower()
Lower(s) == [i \in 1..Len(s) |-> LowerChar(s[i])]

\* Python's (term in text) for strings: term occurs as a contiguous substring.
Contains(text, term) ==
    \E i \in 0..(Len(text) - Len(term)) :
        \A j \in 1..Len(term) : text[i + j] = term[j]

\* any(term in text for term in terms)
AnyTermIn(terms, text) == \E k \in 1..Len(terms) : Contains(text, terms[k])

\* any(term.lower() in text for term in terms)
AnyLoweredTermIn(terms, text) ==
    \E k \in 1..Len(terms) : Contains(text, Lower(terms[k]))

(***************************************************************************)
(* Relevance rule sets.                                                    *)
(***************************************************************************)

MEDICARE_GATE_TERMS ==
    <<
       <<"m","e","d","i","c","a","r","e">>,
       <<"c","m","s">>,
       <<"c","e","n","t","e","r","s"," ","f","o","r"," ","m","e","d","i","c","a","r","e">>
    >>

KEYWORDS ==
    <<
       <<"A","C","C","E","S","S">>,
       <<"A","C","O"," ","R","E","A","C","H">>,
       <<"M","e","d","i","c","a","r","e"," ","A","d","v","a","n","t","a","g","e">>,
       <<"C","M","S"," ","I","n","n","o","v","a","t","i","o","n"," ","C","e","n","t","e","r">>,
       <<"C","M","M","I">>,
       <<"M","e","d","i","c","a","r","e"," ","P","a","r","t"," ","D">>,
       <<"m","e","d","i","c","a","t","i","o","n"," ","t","h","e","r","a","p","y"," ","m","a","n","a","g","e","m","e","n","t">>,
       <<"M","T","M">>,
       <<"v","a","l","u","e","-","b","a","s","e","d"," ","c","a","r","e">>,
       <<"r","i","s","k"," ","a","d","j","u","s","t","m","e","n","t">>,
       <<"M","e","d","i","c","a","r","e"," ","p","a","y","m","e","n","t">>,
       <<"M","e","d","i","c","a","r","e"," ","p","o","l","i","c","y">>,
       <<"s","t","a","r"," ","r","a","t","i","n","g","s">>,
       <<"q","u","a","l","i","t","y"," ","m","e","a","s","u","r","e","s">>,
       <<"b","e","n","e","f","i","c","i","a","r","y">>,
       <<"M","e","d","i","c","a","r","e"," ","e","n","r","o","l","l","m","e","n","t">>,
       <<"p","r","e","s","c","r","i","p","t","i","o","n"," ","d","r","u","g"," ","c","o","v","e","r","a","g","e">>,
       <<"f","o","r","m","u","l","a","r","y">>,
       <<"p","r","i","o","r"," ","a","u","t","h","o","r","i","z","a","t","i","o","n">>,
       <<"s","t","e","p"," ","t","h","e","r","a","p","y">>
    >>

HIGH_PRIORITY ==
    <<
       <<"A","C","C","E","S","S"," ","p","r","o","g","r","a","m">>,
       <<"A","C","O"," ","R","E","A","C","H">>,
       <<"C","M","M","I">>,
       <<"m","e","d","i","c","a","t","i","o","n"," ","t","h","e","r","a","p","y"," ","m","a","n","a","g","e","m","e","n","t">>,
       <<"M","T","M">>,
       <<"P","a","r","t"," ","D">>,
       <<"p","r","e","s","c","r","i","p","t","i","o","n"," ","d","r","u","g">>
    >>

PHARMACY_KEYWORDS ==
    <<
       <<"m","e","d","i","c","a","t","i","o","n">>,
       <<"p","h","a","r","m","a","c","y">>,
       <<"p","h","a","r","m","a","c","i","s","t">>,
       <<"d","r","u","g">>,
       <<"p","r","e","s","c","r","i","p","t","i","o","n">>,
       <<"a","d","h","e","r","e","n","c","e">>,
       <<"M","T","M">>,
       <<"m","e","d","i","c","a","t","i","o","n"," ","t","h","e","r","a","p","y"," ","m","a","n","a","g","e","m","e","n","t">>,
       <<"p","o","l","y","p","h","a","r","m","a","c","y">>,
       <<"d","e","p","r","e","s","c","r","i","b","i","n","g">>,
       <<"d","r","u","g"," ","i","n","t","e","r","a","c","t","i","o","n">>,
       <<"m","e","d","i","c","a","t","i","o","n"," ","s","a","f","e","t","y">>,
       <<"m","e","d","i","c","a","t","i","o","n"," ","e","r","r","o","r">>,
       <<"a","d","v","e","r","s","e"," ","d","r","u","g">>,
       <<"c","l","i","n","i","c","a","l"," ","p","h","a","r","m","a","c","y">>,
       <<"p","h","a","r","m","a","c","e","u","t","i","c","a","l"," ","c","a","r","e">>,
       <<"m","e","d","i","c","a","t","i","o","n"," ","r","e","c","o","n","c","i","l","i","a","t","i","o","n">>,
       <<"m","e","d","i","c","a","t","i","o","n"," ","r","e","v","i","e","w">>
    >>

MEDICARE_KEYWORDS ==
    <<
       <<"M","e","d","i","c","a","r","e">>,
       <<"A","C","C","E","S","S">>,
       <<"C","M","S">>,
       <<"P","a","r","t"," ","D">>,
       <<"m","e","d","i","c","a","t","i","o","n"," ","t","h","e","r","a","p","y"," ","m","a","n","a","g","e","m","e","n","t">>,
       <<"M","T","M">>,
       <<"s","t","a","r"," ","r","a","t","i","n","g","s">>,
       <<"M","e","d","i","c","a","r","e"," ","A","d","v","a","n","t","a","g","e">>
    >>

AI_TERMS ==
    <<
       <<"a","i">>,
       <<"a","r","t","i","f","i","c","i","a","l"," ","i","n","t","e","l","l","i","g","e","n","c","e">>,
       <<"m","a","c","h","i","n","e"," ","l","e","a","r","n","i","n","g">>,
       <<"a","u","t","o","m","a","t","i","o","n">>,
       <<"a","l","g","o","r","i","t","h","m">>
    >>

TECHNOLOGY_TERMS ==
    <<
       <<"t","e","c","h","n","o","l","o","g","y">>,
       <<"d","i","g","i","t","a","l">>,
       <<"i","n","n","o","v","a","t","i","o","n">>,
       <<"s","y","s","t","e","m">>,
       <<"p","l","a","t","f","o","r","m">>
    >>

exclude_terms ==
    <<
       <<"i","m","a","g","i","n","g">>,
       <<"r","a","d","i","o","l","o","g","y">>,
       <<"u","l","t","r","a","s","o","u","n","d">>,
       <<"s","u","r","g","e","r","y">>,
       <<"r","o","b","o","t"," ","s","u","r","g","e","r","y">>,
       <<"d","i","a","g","n","o","s","t","i","c"," ","i","m","a","g","i","n","g">>,
       <<"p","a","t","h","o","l","o","g","y">>,
       <<"N","A","S","A">>,
       <<"s","p","a","c","e">>
    >>


\* Mutant of medicare_is_relevant_article: the high-priority clause is
\* evaluated before the gate clause.
medicare_is_relevant_article_gateSecond(title, summary) ==
    LET text == Lower(title \o <<" ">> \o summary)
        has_medicare == AnyTermIn(MEDICARE_GATE_TERMS, text)
    IN  IF AnyLoweredTermIn(HIGH_PRIORITY, text) THEN TRUE
        ELSE IF ~has_medicare THEN FALSE
        ELSE IF AnyLoweredTermIn(KEYWORDS, text) THEN TRUE
        ELSE FALSE

\* medicare_access_monitor_github.py: is_relevant_article
medicare_is_relevant_article(title, summary) ==
    LET text == Lower(title \o <<" ">> \o summary)
        has_medicare == AnyTermIn(MEDICARE_GATE_TERMS, text)
    IN  IF ~has_medicare THEN FALSE
        ELSE IF AnyLoweredTermIn(HIGH_PRIORITY, text) THEN TRUE
        ELSE IF AnyLoweredTermIn(KEYWORDS, text) THEN TRUE
        ELSE FALSE

\* A classifier that tests the exclusion terms before the accepting clauses.
pharmacy_relevance_decision_excludeFirst(title, summary) ==
    LET text == Lower(title \o <<" ">> \o summary)
        has_ai == AnyTermIn(AI_TERMS, text)
        has_pharmacy == AnyLoweredTermIn(PHARMACY_KEYWORDS, text)
    IN  IF AnyTermIn(exclude_terms, text)
        THEN [clause |-> "exclude", result |-> FALSE]
        ELSE IF AnyLoweredTermIn(MEDICARE_KEYWORDS, text)
        THEN [clause |-> "medicare", result |-> TRUE]
        ELSE IF has_ai /\ has_pharmacy
        THEN [clause |-> "ai_pharmacy", result |-> TRUE]
        ELSE IF has_pharmacy /\ AnyTermIn(TECHNOLOGY_TERMS, text)
        THEN [clause |-> "pharmacy_technology", result |-> TRUE]
        ELSE [clause |-> "default", result |-> FALSE]

\* pharmacy_ai_monitor_github.py: is_relevant_article, as the clause that
\* returns and the value it returns.
pharmacy_relevance_decision(title, summary) ==
    LET text == Lower(title \o <<" ">> \o summary)
        has_ai == AnyTermIn(AI_TERMS, text)
        has_pharmacy == AnyLoweredTermIn(PHARMACY_KEYWORDS, text)
    IN  IF AnyLoweredTermIn(MEDICARE_KEYWORDS, text)
        THEN [clause |-> "medicare", result |-> TRUE]
        ELSE IF has_ai /\ has_pharmacy
        THEN [clause |-> "ai_pharmacy", result |-> TRUE]
        ELSE IF has_pharmacy /\ AnyTermIn(TECHNOLOGY_TERMS, text)
        THEN [clause |-> "pharmacy_technology", result |-> TRUE]
        ELSE IF AnyTermIn(exclude_terms, text)
        THEN [clause |-> "exclude", result |-> FALSE]
        ELSE [clause |-> "default", result |-> FALSE]

pharmacy_is_relevant_article(title, summary) ==
    pharmacy_relevance_decision(title, summary).result

\* The return statement a call of the rule set's classifier leaves by; the
\* clauses of the medicare rule set are not told apart.
ReturningClause(rules, title, summary) ==
    IF rules = "pharmacy"
    THEN pharmacy_relevance_decision(title, summary).clause
    ELSE "medicare_rules"

\* The classifier of the rule set a run variant uses.
is_relevant_article(rules, title, summary) ==
    IF rules = "medicare"
    THEN medicare_is_relevant_article(title, summary)
    ELSE pharmacy_is_relevant_article(title, summary)

(***************************************************************************)
(* Feed entries, as feedparser hands them to collect_articles.             *)
(***************************************************************************)

\* An optional text field of an entry: absent, or present with a value.
AbsentStr == [k |-> "absent", v |-> <<>>]

Str(s) == [k |-> "str", v |-> s]

\* An optional parsed time of an entry: absent, None, a time in clock units,
\* or a time tuple that datetime(...) rejects with ValueError.
AbsentTime == [k |-> "absent", v |-> 0]

NoneTime == [k |-> "none", v |-> 0]

BadTime == [k |-> "bad", v |-> 0]

Time(t) == [k |-> "time", v |-> t]

\* dict.get(key, default) on an optional field.
Get(field, default) == IF field.k = "absent" THEN default ELSE field

\* Clock resolution of the model: units per day.
UnitsPerDay == 2

\* "if (datetime.now() - pub_datetime).days > 21"
RecencyWindowDays == 21

\* "for entry in feed.entries[:25]" (Medicare), "[:20]" (pharmacy)
MedicareScanLimit == 25

PharmacyScanLimit == 20

\* "summary[:2000]"
SummaryLimit == 2000

ScanLimit(rules) ==
    IF rules = "medicare" THEN MedicareScanLimit ELSE PharmacyScanLimit

\* The value of datetime.now() during the run.
RunNow == (RecencyWindowDays + 9) * UnitsPerDay

\* timedelta.days of (now - pub_datetime): whole days, rounded down.
ElapsedDays(now, pub) == (now - pub) \div UnitsPerDay

\* s[:n]
Take(s, n) == SubSeq(s, 1, IF Len(s) < n THEN Len(s) ELSE n)

NewEntry(title, summary, link, published, published_parsed, updated, updated_parsed) ==
    [title |-> title, summary |-> summary, description |-> AbsentStr,
     link |-> link, published |-> published,
     published_parsed |-> published_parsed, updated |-> updated,
     updated_parsed |-> updated_parsed]

\* Relevant under both rule sets, published one day ago.
EntryRecent ==
    NewEntry(Str(<<"C","M","S"," ","M","T","M">>), Str(<<"d","r","u","g">>),
             Str(<<"l","1">>),
             Str(<<"T","u","e",","," ","0","3"," ","N","o","v">>),
             Time(RunNow - UnitsPerDay), AbsentStr, AbsentTime)

\* Relevant, no publication time at all; its title normalizes to the key of
\* EntryRecent.
EntryUndated ==
    NewEntry(Str(<<"c","m","s"," ","m","t","m","!">>), AbsentStr,
             Str(<<"l","2">>), AbsentStr, AbsentTime, AbsentStr, AbsentTime)

\* Relevant, published 21 days and one clock unit ago.
EntryJustOver ==
    NewEntry(Str(<<"C","M","S"," ","P","a","r","t"," ","D">>), AbsentStr,
             Str(<<"l","3">>),
             Str(<<"W","e","d",","," ","1","4"," ","O","c","t">>),
             Time(RunNow - (RecencyWindowDays * UnitsPerDay + 1)),
             AbsentStr, AbsentTime)

\* Relevant, published 22 days ago; its title normalizes to the key of
\* EntryRecent.
EntryOld ==
    NewEntry(Str(<<"C","m","s"," ","M","t","m">>), AbsentStr,
             Str(<<"l","4">>),
             Str(<<"T","u","e",","," ","1","3"," ","O","c","t">>),
             Time(RunNow - (RecencyWindowDays + 1) * UnitsPerDay),
             AbsentStr, AbsentTime)

\* Not relevant under either rule set.
EntryOffTopic ==
    NewEntry(Str(<<"n","a","s","a"," ","s","p","a","c","e">>), AbsentStr,
             Str(<<"l","5">>),
             Str(<<"T","u","e",","," ","0","3"," ","N","o","v">>),
             Time(RunNow - UnitsPerDay), AbsentStr, AbsentTime)

\* Relevant, with a time tuple datetime(...) rejects.
EntryBadDate ==
    NewEntry(Str(<<"C","M","S"," ","A","C","C","E","S","S">>), AbsentStr,
             Str(<<"l","6">>), Str(<<"0","0"," ","x">>),
             BadTime, AbsentStr, AbsentTime)

\* Empty title, relevant through its summary; only an updated time, two days
\* ago.
EntryUntitled ==
    NewEntry(Str(<<>>), Str(<<"c","m","s"," ","m","t","m">>),
             Str(<<"l","7">>), AbsentStr, AbsentTime,
             Str(<<"2","0","2","6","-","1","1","-","0","2">>),
             Time(RunNow - 2 * UnitsPerDay))

\* Not relevant under either rule set, no publication time at all.
EntryUndatedOffTopic ==
    NewEntry(Str(<<"n","a","s","a">>), AbsentStr, Str(<<"l","8">>),
             AbsentStr, AbsentTime, AbsentStr, AbsentTime)

\* The entries of a digest feed: five with distinct titles, published one
\* to five days ago, and two whose titles repeat the first two in another
\* case and with punctuation. Each row: name, days ago, title, link.
DigestTable ==
    { <<"d1", 1, <<"C","M","S"," ","M","T","M"," ","1">>, <<"d","1">> >>,
      <<"d2", 2, <<"C","M","S"," ","M","T","M"," ","2">>, <<"d","2">> >>,
      <<"d3", 3, <<"C","M","S"," ","M","T","M"," ","3">>, <<"d","3">> >>,
      <<"d4", 4, <<"C","M","S"," ","M","T","M"," ","4">>, <<"d","4">> >>,
      <<"d5", 5, <<"C","M","S"," ","M","T","M"," ","5">>, <<"d","5">> >>,
      <<"x1", 1, <<"c","m","s"," ","m","t","m"," ","1","!">>, <<"x","1">> >>,
      <<"x2", 2, <<"c","m","s"," ","m","t","m"," ","2","!">>, <<"x","2">> >> }

\* The 'published' strings of the five days before the run.
DigestPublished ==
    << <<"T","u","e",","," ","0","3"," ","N","o","v">>,
       <<"M","o","n",","," ","0","2"," ","N","o","v">>,
       <<"S","u","n",","," ","0","1"," ","N","o","v">>,
       <<"S","a","t",","," ","3","1"," ","O","c","t">>,
       <<"F","r","i",","," ","3","0"," ","O","c","t">> >>

DigestNames == {r[1] : r \in DigestTable}

DigestEntry(name) ==
    LET r == CHOOSE row \in DigestTable : row[1] = name
    IN  NewEntry(Str(r[3]), AbsentStr, Str(r[4]), Str(DigestPublished[r[2]]),
                 Time(RunNow - r[2] * UnitsPerDay), AbsentStr, AbsentTime)

\* The entries of the model, by name.
Entry(name) ==
    CASE name = "recent" -> EntryRecent
      [] name = "undated" -> EntryUndated
      [] name = "just_over" -> EntryJustOver
      [] name = "old" -> EntryOld
      [] name = "off_topic" -> EntryOffTopic
      [] name = "bad_date" -> EntryBadDate
      [] name = "untitled" -> EntryUntitled
      [] name = "undated_off_topic" -> EntryUndatedOffTopic
      [] name \in DigestNames -> DigestEntry(name)

EntryNames ==
    {"recent", "undated", "just_over", "old", "off_topic", "bad_date",
     "untitled", "undated_off_topic"} \cup DigestNames

\* The entries that feeds are freely composed of.
EntrySamples == {"recent", "undated", "old", "off_topic"}

\* Number of feed locators in RSS_FEEDS.
NumFeeds == 2

\* Longest feed composed freely of EntrySamples.
MaxEntries == 1

\* A feed as feedparser.parse returns it (its entries, by name), or the call
\* raising.
NewFeed(raises, entries) == [raises |-> raises, entries |-> entries]

\* A feed longer than the scan limit: off-topic entries up to the limit,
\* then a relevant, recent one.
LongFeed(limit) ==
    NewFeed(FALSE, [i \in 1..(limit + 1) |->
                      IF i <= limit THEN "off_topic" ELSE "recent"])

\* Feeds every run can meet: the fetch raising, an entry raising after one
\* was collected, and the entries not in EntrySamples.
CommonFeeds ==
    { NewFeed(FALSE, es) :
        es \in UNION { [1..n -> EntrySamples] : n \in 0..MaxEntries } }
    \cup { NewFeed(TRUE, <<>>),
           NewFeed(FALSE, <<"recent", "bad_date", "undated">>),
           NewFeed(FALSE, <<"just_over">>),
           NewFeed(FALSE, <<"untitled", "off_topic">>),
           NewFeed(FALSE, <<"undated_off_topic", "undated">>),
           NewFeed(FALSE, <<"d1", "d2", "x1", "d3", "d4", "x2", "d5">>) }

MedicareFeedSamples == CommonFeeds \cup {LongFeed(MedicareScanLimit)}

PharmacyFeedSamples == CommonFeeds \cup {LongFeed(PharmacyScanLimit)}

FeedSamples(rules) ==
    IF rules = "medicare" THEN MedicareFeedSamples ELSE PharmacyFeedSamples

\* feed.feed.get('title', 'Unknown source') of the i-th locator: the first
\* feed carries no title.
UnknownSource ==
    <<"U","n","k","n","o","w","n"," ","s","o","u","r","c","e">>

DateUnknown == <<"D","a","t","e"," ","u","n","k","n","o","w","n">>

FeedTitle(i) ==
    IF i = 1 THEN AbsentStr ELSE Str(<<"F", DigitChars[(i % 10) + 1]>>)

(***************************************************************************)
(* collect_articles: the loop over the feed locators.                      *)
(***************************************************************************)

\* title and summary of an entry as the loop reads them (lines 89-90).
TitleOf(entry) == Get(entry.title, Str(<<>>)).v

SummaryOf(entry) ==
    Get(entry.summary, Get(entry.description, Str(<<>>))).v

\* The dict appended to articles for an entry (lines 100-106).
ArticleOf(entry, feedTitle) ==
    [title |-> TitleOf(entry),
     link |-> Get(entry.link, Str(<<>>)).v,
     summary |-> Take(SummaryOf(entry), SummaryLimit),
     published |-> Get(entry.published,
                       Get(entry.updated, Str(DateUnknown))).v,
     source |-> Get(feedTitle, Str(UnknownSource)).v]

\* entry.get('published_parsed', entry.get('updated_parsed'))
PubDateOf(entry) ==
    Get(entry.published_parsed, Get(entry.updated_parsed, NoneTime))

\* Mutant of HasPubDate: a missing time is checked as if it were the epoch.
HasPubDate_missingIsEpoch(entry) == TRUE

\* "if pub_date:" - a time tuple is truthy, None is not.
HasPubDate(entry) == PubDateOf(entry).k \in {"time", "bad"}

\* is_relevant_article(title, summary) for each entry of the model, computed
\* once per rule set: pairs of an entry name and the result.
MedicareRelevance ==
    { <<n, is_relevant_article("medicare", TitleOf(Entry(n)),
                               SummaryOf(Entry(n)))>> : n \in EntryNames }

PharmacyRelevance ==
    { <<n, is_relevant_article("pharmacy", TitleOf(Entry(n)),
                               SummaryOf(Entry(n)))>> : n \in EntryNames }

\* "if is_relevant_article(title, summary):" for the entry of that name.
EntryIsRelevant(rules, name) ==
    IF rules = "medicare" THEN <<name, TRUE>> \in MedicareRelevance
    ELSE <<name, TRUE>> \in PharmacyRelevance

\* Mutant of TooOld: no record is dropped for its age.
TooOld_never(now, pub) == FALSE

\* Mutant of TooOld: the age is compared at clock resolution.
TooOld_exact(now, pub) == (now - pub) > RecencyWindowDays * UnitsPerDay

\* "(datetime.now() - pub_datetime).days > 21"
TooOld(now, pub) == ElapsedDays(now, pub) > RecencyWindowDays

\* The body of the inner loop (lines 88-106) over the entries left to scan.
\* Returns the articles list and the position of the entry that raised
\* (0: none), counted from `pos`.
RECURSIVE ProcessEntries(_, _, _, _, _, _)
ProcessEntries(rules, entries, pos, arts, feedTitle, now) ==
    IF entries = <<>> THEN [articles |-> arts, raisedAt |-> 0]
    ELSE LET entry == Entry(Head(entries))
             rest == Tail(entries)
         IN  IF ~EntryIsRelevant(rules, Head(entries))
             THEN ProcessEntries(rules, rest, pos + 1, arts, feedTitle, now)
             ELSE IF HasPubDate(entry) /\ PubDateOf(entry).k = "bad"
             THEN [articles |-> arts, raisedAt |-> pos]
             ELSE IF HasPubDate(entry) /\ TooOld(now, PubDateOf(entry).v)
             THEN ProcessEntries(rules, rest, pos + 1, arts, feedTitle, now)
             ELSE ProcessEntries(rules, rest, pos + 1,
                                 Append(arts, ArticleOf(entry, feedTitle)),
                                 feedTitle, now)

\* Mutant of ProcessFeed: an exception ends the collection with nothing.
ProcessFeed_abortOnError(rules, feed, i, arts, now) ==
    IF feed.raises THEN [articles |-> <<>>, raisedAt |-> 0, raised |-> TRUE]
    ELSE LET r == ProcessEntries(rules, Take(feed.entries, ScanLimit(rules)),
                                 1, arts, FeedTitle(i), now)
         IN  [articles |-> IF r.raisedAt > 0 THEN <<>> ELSE r.articles,
              raisedAt |-> r.raisedAt, raised |-> r.raisedAt > 0]

\* One iteration of the loop over RSS_FEEDS (lines 79-114): the try block
\* and its except clause.
ProcessFeed(rules, feed, i, arts, now) ==
    IF feed.raises THEN [articles |-> arts, raisedAt |-> 0, raised |-> TRUE]
    ELSE IF feed.entries = <<>>
    THEN [articles |-> arts, raisedAt |-> 0, raised |-> FALSE]
    ELSE LET r == ProcessEntries(rules, Take(feed.entries, ScanLimit(rules)),
                                 1, arts, FeedTitle(i), now)
         IN  [articles |-> r.articles, raisedAt |-> r.raisedAt,
              raised |-> r.raisedAt > 0]

(***************************************************************************)
(* collect_articles: duplicate removal and ranking.                        *)
(***************************************************************************)

WhitespaceChars == {" ", "\t", "\n", "\r"}

\* \w of the re module on this alphabet: letters, digits and the underscore.
IsWordChar(c) == c \in UpperSet \/ c \in LowerSet \/ c \in DigitSet \/ c = "_"

KeepInKey(c) == IsWordChar(c) \/ c \in WhitespaceChars

\* re.sub(r'[^\w\s]', '', s)
RECURSIVE RemoveNonKeyChars(_)
RemoveNonKeyChars(s) ==
    IF s = <<>> THEN <<>>
    ELSE IF KeepInKey(Head(s)) THEN <<Head(s)>> \o RemoveNonKeyChars(Tail(s))
    ELSE RemoveNonKeyChars(Tail(s))

\* Mutant of simple_title: punctuation is kept in the key.
simple_title_raw(t) == Lower(t)

\* re.sub(r'[^\w\s]', '', article['title'].lower())
simple_title(t) == RemoveNonKeyChars(Lower(t))

\* Mutant of RemoveDuplicates: a later record replaces the one kept for its
\* key.
RECURSIVE RemoveDuplicates_lastWins(_, _)
RemoveDuplicates_lastWins(arts, unique) ==
    IF arts = <<>> THEN unique
    ELSE LET a == Head(arts)
             clash == {i \in 1..Len(unique) :
                         simple_title(unique[i].title) = simple_title(a.title)}
         IN  IF clash = {}
             THEN RemoveDuplicates_lastWins(Tail(arts), Append(unique, a))
             ELSE RemoveDuplicates_lastWins(Tail(arts),
                      [i \in 1..Len(unique) |->
                          IF i \in clash THEN a ELSE unique[i]])

\* Lines 116-123: unique_articles as the list of its values in insertion
\* order; `unique` holds the values inserted so far.
RECURSIVE RemoveDuplicates(_, _)
RemoveDuplicates(arts, unique) ==
    IF arts = <<>> THEN unique
    ELSE LET a == Head(arts)
             seen == \E i \in 1..Len(unique) :
                        simple_title(unique[i].title) = simple_title(a.title)
         IN  RemoveDuplicates(Tail(arts),
                              IF seen THEN unique ELSE Append(unique, a))

\* Python's < on str: lexicographic by code point.
RECURSIVE StrLess(_, _)
StrLess(a, b) ==
    IF b = <<>> THEN FALSE
    ELSE IF a = <<>> THEN TRUE
    ELSE IF Head(a) = Head(b) THEN StrLess(Tail(a), Tail(b))
    ELSE Ord(Head(a)) < Ord(Head(b))

\* Insert into a list sorted by descending key, after the elements whose key
\* is not smaller (the sort is stable).
RECURSIVE InsertByPublished(_, _)
InsertByPublished(sorted, a) ==
    IF sorted = <<>> THEN <<a>>
    ELSE IF StrLess(Head(sorted).published, a.published)
    THEN <<a>> \o sorted
    ELSE <<Head(sorted)>> \o InsertByPublished(Tail(sorted), a)

RECURSIVE SortFrom(_, _)
SortFrom(arts, sorted) ==
    IF arts = <<>> THEN sorted
    ELSE SortFrom(Tail(arts), InsertByPublished(sorted, Head(arts)))

\* articles.sort(key=lambda x: x.get('published', ''), reverse=True)
SortByPublishedDesc(arts) == SortFrom(arts, <<>>)

(***************************************************************************)
(* create_html_email: the line-oriented renderer.                          *)
(***************************************************************************)

\* The bullet glyph U+2022, one character of the text.
Bullet == "BULLET"

StartsWith(s, prefix) ==
    /\ Len(prefix) <= Len(s)
    /\ \A j \in 1..Len(prefix) : s[j] = prefix[j]

\* str.split(sep) for a one-character separator.
RECURSIVE SplitFrom(_, _, _)
SplitFrom(s, sep, current) ==
    IF s = <<>> THEN <<current>>
    ELSE IF Head(s) = sep
    THEN <<current>> \o SplitFrom(Tail(s), sep, <<>>)
    ELSE SplitFrom(Tail(s), sep, Append(current, Head(s)))

Split(s, sep) == SplitFrom(s, sep, <<>>)

RECURSIVE LStrip(_)
LStrip(s) ==
    IF s # <<>> /\ Head(s) \in WhitespaceChars THEN LStrip(Tail(s)) ELSE s

RECURSIVE RStrip(_)
RStrip(s) ==
    IF s # <<>> /\ s[Len(s)] \in WhitespaceChars
    THEN RStrip(SubSeq(s, 1, Len(s) - 1))
    ELSE s

\* Mutant of Strip: the line is taken as written.
Strip_asWritten(s) == s

\* str.strip()
Strip(s) == RStrip(LStrip(s))

\* str.replace(old, new): leftmost non-overlapping occurrences, old non-empty.
RECURSIVE Replace(_, _, _)
Replace(s, old, new) ==
    IF s = <<>> THEN <<>>
    ELSE IF StartsWith(s, old)
    THEN new \o Replace(SubSeq(s, Len(old) + 1, Len(s)), old, new)
    ELSE <<Head(s)>> \o Replace(Tail(s), old, new)

HeadingMarker == <<"#","#">>

HashMark == <<"#">>

BoldMarker == <<"*","*">>

StrongOpen == <<"<","s","t","r","o","n","g",">">>

StrongClose == <<"<","/","s","t","r","o","n","g",">">>

\* Section titles of the Medicare and pharmacy briefs (line 221).
BriefSectionTitles ==
    << <<"E","X","E","C","U","T","I","V","E"," ","S","U","M","M","A","R","Y">>,
       <<"K","E","Y"," ","T","A","K","E","A","W","A","Y","S">>,
       <<"M","I","L","U"," ","S","T","R","A","T","E","G","I","C">> >>

\* Section titles of the Merlin report (lines 180-181).
ReportSectionTitles ==
    << <<"E","X","E","C","U","T","I","V","E"," ","S","U","M","M","A","R","Y">>,
       <<"K","E","Y"," ","M","E","T","R","I","C","S">>,
       <<"A","N","O","M","A","L","I","E","S">>,
       <<"R","E","C","O","M","M","E","N","D","A","T","I","O","N","S">> >>

AnomaliesTitle == <<"A","N","O","M","A","L","I","E","S">>

\* Words that flag a bullet item of the Merlin report (line 200).
ConcerningWords ==
    << <<"d","r","o","p">>, <<"d","e","c","l","i","n","e">>,
       <<"c","o","n","c","e","r","n">>, <<"a","l","e","r","t">>,
       <<"s","p","i","k","e">>, <<"f","a","i","l","u","r","e">> >>

SectionTitles(kind) ==
    IF kind = "report" THEN ReportSectionTitles ELSE BriefSectionTitles

\* One element of html_parts: what is emitted and the text it carries.
Part(tag, text) == [tag |-> tag, text |-> text, num |-> 0, flagged |-> FALSE]

NumberedPart(tag, text, num) ==
    [tag |-> tag, text |-> text, num |-> num, flagged |-> FALSE]

\* Mutant of IsSectionHeader: a line that starts with a bullet glyph is
\* never a section header.
IsSectionHeader_unlessBullet(kind, line) ==
    /\ ~(StartsWith(line, <<Bullet>>) \/ StartsWith(line, <<"-">>)
          \/ StartsWith(line, <<"*">>))
    /\ (StartsWith(line, HeadingMarker)
          \/ AnyTermIn(SectionTitles(kind), line))

IsSectionHeader(kind, line) ==
    StartsWith(line, HeadingMarker) \/ AnyTermIn(SectionTitles(kind), line)

IsBulletLine(line) ==
    StartsWith(line, <<Bullet>>) \/ StartsWith(line, <<"-">>)
        \/ StartsWith(line, <<"*">>)

\* line[1:].strip().replace('**', '<strong>').replace('**', '</strong>')
BulletText(line) ==
    Replace(Replace(Strip(Tail(line)), BoldMarker, StrongOpen),
            BoldMarker, StrongClose)

\* The loop over the lines of the synthesis text (lines 215-240; Merlin
\* 174-208): html_parts and in_list after the lines left to process.
RECURSIVE RenderLines(_, _, _, _)
RenderLines(kind, lines, parts, in_list) ==
    IF lines = <<>> THEN [parts |-> parts, in_list |-> in_list]
    ELSE LET line == Strip(Head(lines))
             rest == Tail(lines)
             closed == IF in_list THEN Append(parts, Part("ul_close", <<>>))
                       ELSE parts
         IN  IF line = <<>> THEN RenderLines(kind, rest, parts, in_list)
             ELSE IF IsSectionHeader(kind, line)
             THEN LET section == Strip(Replace(Replace(line, HeadingMarker,
                                                       <<>>), HashMark, <<>>))
                      h2 == [Part("h2", section) EXCEPT !.flagged =
                                kind = "report"
                                /\ Contains(section, AnomaliesTitle)]
                  IN  RenderLines(kind, rest, Append(closed, h2), FALSE)
             ELSE IF IsBulletLine(line)
             THEN LET opened == IF in_list THEN parts
                                ELSE Append(parts, Part("ul_open", <<>>))
                      text == BulletText(line)
                      li == [Part("li", text) EXCEPT !.flagged =
                                kind = "report"
                                /\ AnyTermIn(ConcerningWords, Lower(text))]
                  IN  RenderLines(kind, rest, Append(opened, li), TRUE)
             ELSE RenderLines(kind, rest, Append(closed, Part("p", line)),
                              FALSE)

\* Mutant of RenderNarrative: a list open at the end of the text stays open.
RenderNarrative_noFinalClose(kind, text) ==
    RenderLines(kind, Split(text, "\n"), <<>>, FALSE).parts

\* The narrative part of the document: the loop and the closing of a list
\* left open (lines 212-243).
RenderNarrative(kind, text) ==
    LET r == RenderLines(kind, Split(text, "\n"), <<>>, FALSE)
    IN  IF r.in_list THEN Append(r.parts, Part("ul_close", <<>>)) ELSE r.parts

\* The article reference list (lines 245-255): five parts per article.
RECURSIVE RenderListing(_, _)
RenderListing(arts, i) ==
    IF arts = <<>> THEN <<>>
    ELSE LET a == Head(arts)
         IN  << Part("item_open", <<>>),
                NumberedPart("item_title", a.title, i),
                Part("item_source", a.source \o <<" ","|"," ">> \o a.published),
                Part("item_link", a.link),
                Part("item_close", <<>>) >>
             \o RenderListing(Tail(arts), i + 1)

\* Mutant of create_html_email: without a narrative the document has no
\* article list.
create_html_email_listingAfterNarrative(executive_summary, arts) ==
    << Part("div_open", <<>>), Part("h1", <<>>), Part("p_date", <<>>),
       NumberedPart("p_count", <<>>, Len(arts)), Part("hr", <<>>) >>
    \o RenderNarrative("brief", executive_summary)
    \o << Part("hr", <<>>), Part("h2_listing", <<>>), Part("p_listing", <<>>) >>
    \o (IF RenderNarrative("brief", executive_summary) = <<>> THEN <<>>
        ELSE RenderListing(arts, 1))
    \o << Part("div_close", <<>>) >>

\* create_html_email of the Medicare and pharmacy monitors.
create_html_email(executive_summary, arts) ==
    << Part("div_open", <<>>), Part("h1", <<>>), Part("p_date", <<>>),
       NumberedPart("p_count", <<>>, Len(arts)), Part("hr", <<>>) >>
    \o RenderNarrative("brief", executive_summary)
    \o << Part("hr", <<>>), Part("h2_listing", <<>>), Part("p_listing", <<>>) >>
    \o RenderListing(arts, 1)
    \o << Part("div_close", <<>>) >>

\* create_html_email of the Merlin monitor.
merlin_create_html_email(analysis, num_weeks) ==
    << Part("div_open", <<>>), Part("h1", <<>>), Part("p_date", <<>>),
       NumberedPart("p_count", <<>>, num_weeks), Part("hr", <<>>) >>
    \o RenderNarrative("report", analysis)
    \o << Part("hr", <<>>), Part("p_footer", <<>>), Part("div_close", <<>>) >>

(***************************************************************************)
(* read_sheet_data of the Merlin monitor.                                  *)
(***************************************************************************)

IsDigit(c) == c \in DigitSet

DigitValue(c) == (CHOOSE i \in 1..Len(DigitChars) : DigitChars[i] = c) - 1

\* The digits of a literal after its sign.
UnsignedDigits(s) ==
    IF s # <<>> /\ Head(s) \in {"+", "-"} THEN Tail(s) ELSE s

\* int(cell) succeeds: optional surrounding whitespace, an optional sign,
\* then digits.
IsIntLiteral(cell) ==
    LET body == UnsignedDigits(Strip(cell))
    IN  body # <<>> /\ \A i \in 1..Len(body) : IsDigit(body[i])

RECURSIVE DigitsValue(_, _)
DigitsValue(ds, acc) ==
    IF ds = <<>> THEN acc
    ELSE DigitsValue(Tail(ds), 10 * acc + DigitValue(Head(ds)))

\* int(cell) for a cell that IsIntLiteral.
IntValue(cell) ==
    LET t == Strip(cell)
        n == DigitsValue(UnsignedDigits(t), 0)
    IN  IF t # <<>> /\ Head(t) = "-" THEN 0 - n ELSE n

\* "int(row[i]) if row[i] else 0" raises ValueError for this cell.
CounterRaises(cell) == cell # <<>> /\ ~IsIntLiteral(cell)

CounterValue(cell) == IF cell = <<>> THEN 0 ELSE IntValue(cell)

\* Columns a row must have (line 70).
RequiredColumns == 7

\* The record built from a row of at least RequiredColumns cells whose
\* counters parse (lines 72-81).
RecordOf(row) ==
    [date |-> row[1],
     ascvd_correct |-> CounterValue(row[2]),
     ascvd_incorrect |-> CounterValue(row[3]),
     drug_interactions_detected |-> CounterValue(row[4]),
     drug_interactions_missed |-> CounterValue(row[5]),
     false_positives |-> CounterValue(row[6]),
     allergy_failures |-> CounterValue(row[7]),
     notes |-> IF Len(row) > RequiredColumns THEN row[8] ELSE <<>>]

RowRaises(row) == \E i \in 2..RequiredColumns : CounterRaises(row[i])

\* The loop over data_rows (lines 69-85): the records and the number of
\* "Skipping invalid row" lines printed.
RECURSIVE ParseRows(_, _, _)
ParseRows(rows, recs, warnings) ==
    IF rows = <<>> THEN [records |-> recs, warnings |-> warnings]
    ELSE LET row == Head(rows)
         IN  IF Len(row) >= RequiredColumns
             THEN IF RowRaises(row)
                  THEN ParseRows(Tail(rows), recs, warnings + 1)
                  ELSE ParseRows(Tail(rows), Append(recs, RecordOf(row)),
                                 warnings)
             ELSE ParseRows(Tail(rows), recs, warnings)

\* What read_sheet_data returns: None, or the list of records.
NoRecords == [k |-> "none", v |-> <<>>, warnings |-> 0]

Unread == [k |-> "unread", v |-> <<>>, warnings |-> 0]

\* read_sheet_data on the values the Sheets API returned (lines 58-88).
read_sheet_data(values) ==
    IF values = <<>> \/ Len(values) < 2 THEN NoRecords
    ELSE LET r == ParseRows(Tail(values), <<>>, 0)
         IN  [k |-> "list", v |-> r.records, warnings |-> r.warnings]

HeaderRow ==
    << <<"D","a","t","e">>, <<"A">>, <<"B">>, <<"C">>, <<"D">>, <<"E">>,
       <<"F">>, <<"N">> >>

\* Seven columns, all counters integers.
RowSeven ==
    << <<"w","1">>, <<"9">>, <<"1">>, <<"4">>, <<"0">>, <<"2">>, <<"0">> >>

\* Eight columns, an empty counter and a padded one.
RowEight ==
    << <<"w","2">>, <<"1","2">>, <<>>, <<" ","3">>, <<"1">>, <<"-","1">>,
       <<"0">>, <<"o","k">> >>

\* Six columns.
RowShort == << <<"w","3">>, <<"9">>, <<"1">>, <<"4">>, <<"0">>, <<"2">> >>

\* Seven columns, one counter not an integer.
RowNotInteger ==
    << <<"w","4">>, <<"9">>, <<"x">>, <<"4">>, <<"0">>, <<"2">>, <<"0">> >>

RowSamples == { RowSeven, RowEight, RowShort, RowNotInteger }

\* Most data rows of a sheet.
MaxRows == 2

SheetSamples ==
    { <<>> }
    \cup { <<HeaderRow>> \o rows :
             rows \in UNION { [1..n -> RowSamples] : n \in 0..MaxRows } }

(***************************************************************************)
(* The synthesis call and the delivery call.                               *)
(***************************************************************************)

\* str(e) of the exception a failed call raises.
ErrorMessage == <<"o","v","e","r","l","o","a","d","e","d">>

BriefErrorPrefix == <<"E","r","r","o","r"," ","c","r","e","a","t","i","n","g"," ","e","x","e","c","u","t","i","v","e"," ","s","u","m","m","a","r","y",":"," ">>

ReportErrorPrefix == <<"E","r","r","o","r"," ","a","n","a","l","y","z","i","n","g"," ","m","e","t","r","i","c","s",":"," ">>

\* Texts the text-generation service returns.
BriefText == <<"#","#"," ","K","E","Y"," ","T","A","K","E","A","W","A","Y","S","\n","-"," ","a","\n","-"," ","*","*","b","*","*","\n","*"," ","c","\n","D","o","n","e">>

EmptyText == <<>>

SynthesisSamples == { BriefText, EmptyText }

\* Outcomes of the text-generation call: a text, or an exception.
SynthesisOutcomes ==
    { [raises |-> FALSE, text |-> t] : t \in SynthesisSamples }
    \cup { [raises |-> TRUE, text |-> <<>>] }

\* Mutant of create_executive_summary: the exception is not caught.
create_executive_summary_uncaught(api) ==
    IF api.raises
    THEN [raised |-> TRUE, text |-> <<>>, logged |-> FALSE]
    ELSE [raised |-> FALSE, text |-> api.text, logged |-> FALSE]

\* create_executive_summary, from the call on (lines 184-195): the text it
\* returns, whether it printed an error, whether an exception leaves it.
create_executive_summary(api) ==
    IF api.raises
    THEN [raised |-> FALSE, text |-> BriefErrorPrefix \o ErrorMessage,
          logged |-> TRUE]
    ELSE [raised |-> FALSE, text |-> api.text, logged |-> FALSE]

\* analyze_metrics, from the call on (lines 144-155).
analyze_metrics(api) ==
    IF api.raises
    THEN [raised |-> FALSE, text |-> ReportErrorPrefix \o ErrorMessage,
          logged |-> TRUE]
    ELSE [raised |-> FALSE, text |-> api.text, logged |-> FALSE]

\* generate_leadership_insight (lines 46-52): no exception handler.
generate_leadership_insight(api) ==
    IF api.raises
    THEN [raised |-> TRUE, text |-> <<>>, logged |-> FALSE]
    ELSE [raised |-> FALSE, text |-> api.text, logged |-> FALSE]

\* What can happen in the SMTP session: the message is sent and the session
\* closed, or one of its four calls raises.
DeliveryOutcomes ==
    {"sent", "connect_error", "login_error", "send_error", "quit_error"}

\* The number of times send_message is called in a session with that outcome.
SendMessageCalls(d) == IF d \in {"connect_error", "login_error"} THEN 0 ELSE 1

\* Mutant of send_email: a failed send_message is tried once more.
send_email_retry(d) ==
    IF d = "sent"
    THEN [raised |-> FALSE, success |-> TRUE, sends |-> 1,
          log |-> <<"email_sent">>]
    ELSE [raised |-> FALSE, success |-> FALSE,
          sends |-> 2 * SendMessageCalls(d), log |-> <<"email_error">>]

\* Mutant of send_email: a failed delivery is reported as sent.
send_email_alwaysTrue(d) ==
    [raised |-> FALSE, success |-> TRUE, sends |-> SendMessageCalls(d),
     log |-> IF d = "sent" THEN <<"email_sent">> ELSE <<"email_error">>]

\* send_email of the Medicare, pharmacy and Merlin monitors (lines 280-292;
\* Merlin 236-247): connect, login, send_message and quit in one try block,
\* any exception caught, printed and turned into False.
send_email(d) ==
    IF d = "sent"
    THEN [raised |-> FALSE, success |-> TRUE, sends |-> 1,
          log |-> <<"email_sent">>]
    ELSE [raised |-> FALSE, success |-> FALSE, sends |-> SendMessageCalls(d),
          log |-> <<"email_error">>]

\* send_email of the daily insight (lines 54-75): the same session in a with
\* block, no exception handler.
insight_send_email(d) ==
    IF d = "sent"
    THEN [raised |-> FALSE, success |-> TRUE, sends |-> 1,
          log |-> <<"insight_sent">>]
    ELSE [raised |-> TRUE, success |-> FALSE, sends |-> SendMessageCalls(d),
          log |-> <<>>]

\* Mutant of NothingToReport: the run goes on with no records.
NothingToReport_never(items) == FALSE

\* "if not articles:" / "if not records:" in main.
NothingToReport(items) == items = <<>>

(***************************************************************************)
(* Bounds of the classifier inputs.                                        *)
(***************************************************************************)

\* A title is the concatenation of at most MaxFrags fragments.
MaxFrags == 2

\* At most MaxToggles characters of the input have their case changed.
MaxToggles == 1

TitleFragments ==
    { <<"C","M","S">>, <<"m","t","m">>, <<"A","i">>, <<"d","r","u","g">>,
      <<"P","a","r","t">>, <<"s","p","a","c","e">> }

SummarySamples ==
    { <<>>, <<"d">>, <<"D","i","g","i","t","a","l">> }

RECURSIVE Concat(_)
Concat(ss) == IF ss = <<>> THEN <<>> ELSE Head(ss) \o Concat(Tail(ss))

TitleSamples ==
    UNION { { Concat(fs) : fs \in [1..n -> TitleFragments] } : n \in 0..MaxFrags }

RuleSets == {"medicare", "pharmacy"}

VARIABLES
    ruleSet,      \* classifier run: the rule set under test
    inTitle,      \* classifier run: the title given to is_relevant_article
    inSummary,    \* classifier run: the summary given to is_relevant_article
    origTitle,    \* classifier run: the title as first drawn
    origSummary,  \* classifier run: the summary as first drawn
    verdict,      \* classifier run: result of the latest call
    decidedBy,    \* classifier run: the return statement the latest call left by
    origVerdict,  \* classifier run: result of the call on the input as drawn
    toggles,      \* classifier run: number of case changes made
    cpc,          \* classifier run: "new", "classified" or "changed"
    variant,      \* the script that runs: medicare, pharmacy, metrics, insight
    pc,           \* position of main: the external call it makes next
    today,        \* datetime.now() of the run
    feedIdx,      \* collect_articles: index of the next locator of RSS_FEEDS
    articles,     \* collect_articles / main: the articles list
    collected,    \* collect_articles: articles as it was before line 116
    unique_articles, \* collect_articles: values of the dict, insertion order
    feedLog,      \* history: what each locator returned and where it raised
    records,      \* Merlin main: what read_sheet_data returned
    sheet,        \* Merlin main: the rows the Sheets API returned (values)
    synthesis,    \* the text handed to the renderer (or sent, for the insight)
    synthRaised,  \* history: the text-generation call raised
    html,         \* html_parts of the rendered document
    synthCalls,   \* number of text-generation calls made
    sendCalls,    \* number of calls of send_message
    delivery,     \* history: what happened in the SMTP session
    sendEmailCalls, \* number of calls of send_email
    log,          \* lines printed, as tags, in order
    outcome,      \* how main ended
    rkind,        \* renderer run: "brief" or "report" (whose create_html_email)
    rlines,       \* renderer run: the lines of the text processed so far
    rparts,       \* renderer run: html_parts of the narrative so far
    rInList,      \* renderer run: in_list after the lines processed so far
    rprevParts,   \* renderer run: html_parts before the latest line
    rprevInList,  \* renderer run: in_list before the latest line
    rdoc,         \* renderer run: the narrative create_html_email produced
    rpc           \* renderer run: "loop" or "done"

cvars == <<ruleSet, inTitle, inSummary, origTitle, origSummary, verdict,
           decidedBy, origVerdict, toggles, cpc>>

pvars == <<variant, pc, today, feedIdx, articles, collected, unique_articles,
           feedLog, records, sheet, synthesis, synthRaised, html, synthCalls,
           sendCalls, delivery, sendEmailCalls, log, outcome>>

rvars == <<rkind, rlines, rparts, rInList, rprevParts, rprevInList, rdoc, rpc>>

vars == <<cvars, pvars, rvars>>

\* The renderer variables while a classifier or a monitor runs.
RendererIdle ==
    /\ rkind = "brief"
    /\ rlines = <<>>
    /\ rparts = <<>>
    /\ rInList = FALSE
    /\ rprevParts = <<>>
    /\ rprevInList = FALSE
    /\ rdoc = <<>>
    /\ rpc = "idle"

\* The pipeline variables while only the classifier runs.
PipelineIdle ==
    /\ variant = "none"
    /\ pc = "idle"
    /\ today = RunNow
    /\ feedIdx = 1
    /\ articles = <<>>
    /\ collected = <<>>
    /\ unique_articles = <<>>
    /\ feedLog = <<>>
    /\ records = Unread
    /\ sheet = <<>>
    /\ synthesis = <<>>
    /\ synthRaised = FALSE
    /\ html = <<>>
    /\ synthCalls = 0
    /\ sendCalls = 0
    /\ delivery = "none"
    /\ sendEmailCalls = 0
    /\ log = <<>>
    /\ outcome = "running"

\* The classifier variables while a monitor runs.
ClassifierIdle ==
    /\ ruleSet = "medicare"
    /\ inTitle = <<>>
    /\ inSummary = <<>>
    /\ origTitle = <<>>
    /\ origSummary = <<>>
    /\ verdict = FALSE
    /\ decidedBy = "none"
    /\ origVerdict = FALSE
    /\ toggles = 0
    /\ cpc = "idle"

IsLetter(c) == c \in UpperSet \/ c \in LowerSet

\* The same letter in the other case (str.swapcase on one character).
SwapCaseChar(c) ==
    IF c \in UpperSet THEN (CHOOSE p \in ToLowerTable : p[1] = c)[2]
    ELSE IF c \in LowerSet THEN (CHOOSE p \in ToLowerTable : p[2] = c)[1]
    ELSE c

InitClassify ==
    /\ ruleSet \in RuleSets
    /\ inTitle \in TitleSamples
    /\ inSummary \in SummarySamples
    /\ origTitle = inTitle
    /\ origSummary = inSummary
    /\ verdict = FALSE
    /\ decidedBy = "none"
    /\ origVerdict = FALSE
    /\ toggles = 0
    /\ cpc = "new"
    /\ PipelineIdle
    /\ RendererIdle

\* The first call, on the input as drawn.
ClassifyOriginal ==
    /\ cpc = "new"
    /\ verdict' = is_relevant_article(ruleSet, inTitle, inSummary)
    /\ decidedBy' = ReturningClause(ruleSet, inTitle, inSummary)
    /\ origVerdict' = verdict'
    /\ cpc' = "classified"
    /\ UNCHANGED <<ruleSet, inTitle, inSummary, origTitle, origSummary, toggles>>
    /\ UNCHANGED pvars
    /\ UNCHANGED rvars

\* The caller changes the case of one letter of the title.
ChangeTitleCase ==
    /\ cpc \in {"classified", "changed"}
    /\ toggles < MaxToggles
    /\ \E i \in 1..Len(inTitle) :
          /\ IsLetter(inTitle[i])
          /\ inTitle' = [inTitle EXCEPT ![i] = SwapCaseChar(inTitle[i])]
    /\ toggles' = toggles + 1
    /\ cpc' = "changed"
    /\ UNCHANGED <<ruleSet, inSummary, origTitle, origSummary, verdict,
                   decidedBy, origVerdict>>
    /\ UNCHANGED pvars
    /\ UNCHANGED rvars

\* The caller changes the case of one letter of the summary.
ChangeSummaryCase ==
    /\ cpc \in {"classified", "changed"}
    /\ toggles < MaxToggles
    /\ \E i \in 1..Len(inSummary) :
          /\ IsLetter(inSummary[i])
          /\ inSummary' = [inSummary EXCEPT ![i] = SwapCaseChar(inSummary[i])]
    /\ toggles' = toggles + 1
    /\ cpc' = "changed"
    /\ UNCHANGED <<ruleSet, inTitle, origTitle, origSummary, verdict,
                   decidedBy, origVerdict>>
    /\ UNCHANGED pvars
    /\ UNCHANGED rvars

\* A further call, on the input with its case changed.
ClassifyAgain ==
    /\ cpc = "changed"
    /\ verdict' = is_relevant_article(ruleSet, inTitle, inSummary)
    /\ decidedBy' = ReturningClause(ruleSet, inTitle, inSummary)
    /\ cpc' = "classified"
    /\ UNCHANGED <<ruleSet, inTitle, inSummary, origTitle, origSummary,
                   origVerdict, toggles>>
    /\ UNCHANGED pvars
    /\ UNCHANGED rvars

NextClassify ==
    \/ ClassifyOriginal
    \/ ChangeTitleCase
    \/ ChangeSummaryCase
    \/ ClassifyAgain

SpecClassify == InitClassify /\ [][NextClassify]_vars

(***************************************************************************)
(* The monitors: main of each script, one action for each external call    *)
(* and the code that runs up to the next one.                              *)
(***************************************************************************)

FeedVariants == {"medicare", "pharmacy"}

Variants == FeedVariants \cup {"metrics", "insight"}

StartOf(v) ==
    IF v \in FeedVariants THEN "collect"
    ELSE IF v = "metrics" THEN "read" ELSE "generate"

Init ==
    /\ variant \in Variants
    /\ pc = StartOf(variant)
    /\ today = RunNow
    /\ feedIdx = 1
    /\ articles = <<>>
    /\ collected = <<>>
    /\ unique_articles = <<>>
    /\ feedLog = <<>>
    /\ records = Unread
    /\ sheet = <<>>
    /\ synthesis = <<>>
    /\ synthRaised = FALSE
    /\ html = <<>>
    /\ synthCalls = 0
    /\ sendCalls = 0
    /\ delivery = "none"
    /\ sendEmailCalls = 0
    /\ log = <<>>
    /\ outcome = "running"
    /\ ClassifierIdle
    /\ RendererIdle

\* What one iteration of the feed loop prints.
FeedLogLines(feed, r, i) ==
    IF r.raised THEN <<"feed_error">>
    ELSE IF feed.entries = <<>> THEN <<"no_entries">>
    ELSE IF \E k \in 1..Len(r.articles) :
                r.articles[k].source = Get(FeedTitle(i), Str(UnknownSource)).v
    THEN <<"found">>
    ELSE <<>>

\* collect_articles, one locator of RSS_FEEDS per step: feedparser.parse and
\* the processing of its entries. After the last locator the function removes
\* duplicates, sorts and returns, and main tests the result (lines 305-312).
FetchFeed ==
    /\ variant \in FeedVariants
    /\ pc = "collect"
    /\ feedIdx <= NumFeeds
    /\ \E feed \in FeedSamples(variant) :
         LET r == ProcessFeed(variant, feed, feedIdx, articles, today)
             lines == FeedLogLines(feed, r, feedIdx)
             unique == RemoveDuplicates(r.articles, <<>>)
             ranked == SortByPublishedDesc(unique)
         IN  /\ feedLog' = Append(feedLog, [feed |-> feed, raised |-> r.raised,
                                            raisedAt |-> r.raisedAt])
             /\ feedIdx' = feedIdx + 1
             /\ IF feedIdx < NumFeeds
                THEN /\ articles' = r.articles
                     /\ log' = log \o lines
                     /\ UNCHANGED <<collected, unique_articles, pc, outcome>>
                ELSE /\ collected' = r.articles
                     /\ unique_articles' = unique
                     /\ articles' = ranked
                     /\ IF NothingToReport(ranked)
                        THEN /\ pc' = "done"
                             /\ outcome' = "nothing_to_report"
                             /\ log' = log \o lines \o <<"collected", "no_articles">>
                        ELSE /\ pc' = "synthesize"
                             /\ outcome' = outcome
                             /\ log' = log \o lines \o <<"collected">>
    /\ UNCHANGED <<variant, today, records, sheet, synthesis, synthRaised, html,
                   synthCalls, sendCalls, delivery, sendEmailCalls>>
    /\ UNCHANGED cvars
    /\ UNCHANGED rvars

\* Medicare / pharmacy main, lines 315-318: create_executive_summary and
\* create_html_email. The client constructor (line 134) is outside the try
\* block: if it raises, main's handler prints the error and returns.
Summarize ==
    /\ variant \in FeedVariants
    /\ pc = "synthesize"
    /\ \/ /\ pc' = "done"
          /\ outcome' = "error_logged"
          /\ log' = Append(log, "main_error")
          /\ UNCHANGED <<synthesis, synthRaised, html, synthCalls>>
       \/ \E o \in SynthesisOutcomes :
            LET r == create_executive_summary(o)
            IN  /\ synthCalls' = synthCalls + 1
                /\ synthRaised' = o.raises
                /\ IF r.raised
                   THEN /\ pc' = "done"
                        /\ outcome' = "error_logged"
                        /\ log' = Append(log, "main_error")
                        /\ UNCHANGED <<synthesis, html>>
                   ELSE /\ synthesis' = r.text
                        /\ html' = create_html_email(r.text, articles)
                        /\ pc' = "send"
                        /\ outcome' = outcome
                        /\ log' = IF r.logged THEN Append(log, "summary_error")
                                  ELSE log
    /\ UNCHANGED <<variant, today, feedIdx, articles, collected, unique_articles,
                   feedLog, records, sheet, sendCalls, delivery, sendEmailCalls>>
    /\ UNCHANGED cvars
    /\ UNCHANGED rvars

\* Medicare / pharmacy main, lines 321-330: send_email and the status lines.
SendBrief ==
    /\ variant \in FeedVariants
    /\ pc = "send"
    /\ \E d \in DeliveryOutcomes :
         LET r == send_email(d)
         IN  /\ sendCalls' = sendCalls + r.sends
             /\ delivery' = d
             /\ sendEmailCalls' = sendEmailCalls + 1
             /\ pc' = "done"
             /\ IF r.raised
                THEN /\ outcome' = "error_logged"
                     /\ log' = log \o r.log \o <<"main_error">>
                ELSE IF r.success
                THEN /\ outcome' = "success"
                     /\ log' = log \o r.log \o <<"success">>
                ELSE /\ outcome' = "delivery_failed"
                     /\ log' = log \o r.log
    /\ UNCHANGED <<variant, today, feedIdx, articles, collected, unique_articles,
                   feedLog, records, sheet, synthesis, synthRaised, html, synthCalls>>
    /\ UNCHANGED cvars
    /\ UNCHANGED rvars

\* Merlin main, lines 260-265: read_sheet_data and the test of its result.
\* Authentication and the Sheets call are outside any handler but main's.
ReadSheet ==
    /\ variant = "metrics"
    /\ pc = "read"
    /\ \/ /\ pc' = "done"
          /\ outcome' = "error_logged"
          /\ log' = Append(log, "main_error")
          /\ UNCHANGED <<records, sheet>>
       \/ \E values \in SheetSamples :
            LET r == read_sheet_data(values)
                warned == [i \in 1..r.warnings |-> "skipped_row"]
                found == IF r.k = "list" THEN <<"found_weeks">> ELSE <<>>
            IN  /\ records' = r
                /\ sheet' = values
                /\ IF NothingToReport(r.v)
                   THEN /\ pc' = "done"
                        /\ outcome' = "nothing_to_report"
                        /\ log' = log \o warned \o found \o <<"no_data">>
                   ELSE /\ pc' = "synthesize"
                        /\ outcome' = outcome
                        /\ log' = log \o warned \o found
    /\ UNCHANGED <<variant, today, feedIdx, articles, collected, unique_articles,
                   feedLog, synthesis, synthRaised, html, synthCalls,
                   sendCalls, delivery, sendEmailCalls>>
    /\ UNCHANGED cvars
    /\ UNCHANGED rvars

\* Merlin main, lines 268-271: analyze_metrics and create_html_email.
Analyze ==
    /\ variant = "metrics"
    /\ pc = "synthesize"
    /\ \/ /\ pc' = "done"
          /\ outcome' = "error_logged"
          /\ log' = Append(log, "main_error")
          /\ UNCHANGED <<synthesis, synthRaised, html, synthCalls>>
       \/ \E o \in SynthesisOutcomes :
            LET r == analyze_metrics(o)
            IN  /\ synthCalls' = synthCalls + 1
                /\ synthRaised' = o.raises
                /\ IF r.raised
                   THEN /\ pc' = "done"
                        /\ outcome' = "error_logged"
                        /\ log' = Append(log, "main_error")
                        /\ UNCHANGED <<synthesis, html>>
                   ELSE /\ synthesis' = r.text
                        /\ html' = merlin_create_html_email(r.text,
                                                            Len(records.v))
                        /\ pc' = "send"
                        /\ outcome' = outcome
                        /\ log' = IF r.logged THEN Append(log, "analysis_error")
                                  ELSE log
    /\ UNCHANGED <<variant, today, feedIdx, articles, collected, unique_articles,
                   feedLog, records, sheet, sendCalls, delivery, sendEmailCalls>>
    /\ UNCHANGED cvars
    /\ UNCHANGED rvars

\* Merlin main, lines 274-283: send_email and the status lines.
SendReport ==
    /\ variant = "metrics"
    /\ pc = "send"
    /\ \E d \in DeliveryOutcomes :
         LET r == send_email(d)
         IN  /\ sendCalls' = sendCalls + r.sends
             /\ delivery' = d
             /\ sendEmailCalls' = sendEmailCalls + 1
             /\ pc' = "done"
             /\ IF r.raised
                THEN /\ outcome' = "error_logged"
                     /\ log' = log \o r.log \o <<"main_error">>
                ELSE IF r.success
                THEN /\ outcome' = "success"
                     /\ log' = log \o r.log \o <<"success">>
                ELSE /\ outcome' = "delivery_failed"
                     /\ log' = log \o r.log
    /\ UNCHANGED <<variant, today, feedIdx, articles, collected, unique_articles,
                   feedLog, records, sheet, synthesis, synthRaised, html, synthCalls>>
    /\ UNCHANGED cvars
    /\ UNCHANGED rvars

\* Daily insight main, line 82: generate_leadership_insight. An exception
\* reaches main's handler, which prints it and raises it again (lines 89-91).
GenerateInsight ==
    /\ variant = "insight"
    /\ pc = "generate"
    /\ \E o \in SynthesisOutcomes :
         LET r == generate_leadership_insight(o)
         IN  /\ synthCalls' = synthCalls + 1
             /\ synthRaised' = o.raises
             /\ IF r.raised
                THEN /\ pc' = "done"
                     /\ outcome' = "raised"
                     /\ log' = Append(log, "main_error")
                     /\ UNCHANGED <<synthesis, html>>
                ELSE /\ synthesis' = r.text
                     /\ html' = <<Part("content", r.text)>>
                     /\ pc' = "send"
                     /\ outcome' = outcome
                     /\ log' = log
    /\ UNCHANGED <<variant, today, feedIdx, articles, collected, unique_articles,
                   feedLog, records, sheet, sendCalls, delivery, sendEmailCalls>>
    /\ UNCHANGED cvars
    /\ UNCHANGED rvars

\* Daily insight main, lines 85-91: send_email and the status line.
SendInsight ==
    /\ variant = "insight"
    /\ pc = "send"
    /\ \E d \in DeliveryOutcomes :
         LET r == insight_send_email(d)
         IN  /\ sendCalls' = sendCalls + r.sends
             /\ delivery' = d
             /\ sendEmailCalls' = sendEmailCalls + 1
             /\ pc' = "done"
             /\ IF r.raised
                THEN /\ outcome' = "raised"
                     /\ log' = log \o r.log \o <<"main_error">>
                ELSE /\ outcome' = "success"
                     /\ log' = log \o r.log \o <<"success">>
    /\ UNCHANGED <<variant, today, feedIdx, articles, collected, unique_articles,
                   feedLog, records, sheet, synthesis, synthRaised, html, synthCalls>>
    /\ UNCHANGED cvars
    /\ UNCHANGED rvars

Next ==
    \/ FetchFeed
    \/ Summarize
    \/ SendBrief
    \/ ReadSheet
    \/ Analyze
    \/ SendReport
    \/ GenerateInsight
    \/ SendInsight

Spec == Init /\ [][Next]_vars

(***************************************************************************)
(* create_html_email on its own: the narrative of a text given line by     *)
(* line, for the brief renderer (Medicare, pharmacy) and the report one.   *)
(***************************************************************************)

\* A text has at most MaxLines lines.
MaxLines == 5

RenderKinds == {"brief", "report"}

\* Lines of a synthesis text: a heading by its marker, bullets by each of
\* the three glyphs, one with a pair of bold markers, a bullet line carrying
\* a section title, a plain line, an empty line and a whitespace-only one.
LineSamples ==
    { <<"#","#"," ","H">>,
      <<"-"," ","a">>,
      <<"*"," ","*","*","b","*","*">>,
      <<Bullet," ","E","X","E","C","U","T","I","V","E"," ","S","U","M","M","A","R","Y">>,
      <<"p">>,
      <<>>,
      <<" ","\t">> }

\* '\n'.join(lines): the text whose lines these are.
RECURSIVE Join(_)
Join(ls) ==
    IF ls = <<>> THEN <<>>
    ELSE IF Len(ls) = 1 THEN Head(ls)
    ELSE Head(ls) \o <<"\n">> \o Join(Tail(ls))

InitRender ==
    /\ rkind \in RenderKinds
    /\ rlines = <<>>
    /\ rparts = <<>>
    /\ rInList = FALSE
    /\ rprevParts = <<>>
    /\ rprevInList = FALSE
    /\ rdoc = <<>>
    /\ rpc = "loop"
    /\ ClassifierIdle
    /\ PipelineIdle

\* One iteration of "for line in lines:" on the next line of the text.
RenderNextLine ==
    /\ rpc = "loop"
    /\ Len(rlines) < MaxLines
    /\ \E line \in LineSamples :
          LET r == RenderLines(rkind, <<line>>, rparts, rInList)
          IN  /\ rlines' = Append(rlines, line)
              /\ rprevParts' = rparts
              /\ rprevInList' = rInList
              /\ rparts' = r.parts
              /\ rInList' = r.in_list
    /\ UNCHANGED <<rkind, rdoc, rpc>>
    /\ UNCHANGED cvars
    /\ UNCHANGED pvars

\* The text ends: create_html_email as a whole on the text of these lines.
RenderFinish ==
    /\ rpc = "loop"
    /\ rdoc' = RenderNarrative(rkind, Join(rlines))
    /\ rpc' = "done"
    /\ UNCHANGED <<rkind, rlines, rparts, rInList, rprevParts, rprevInList>>
    /\ UNCHANGED cvars
    /\ UNCHANGED pvars

NextRender ==
    \/ RenderNextLine
    \/ RenderFinish

SpecRender == InitRender /\ [][NextRender]_vars

(***************************************************************************)
(* Properties of the Relevance Classifier.                                 *)
(***************************************************************************)

\* The lower-cased text the classifier of the run searches.
ClassifiedText == Lower(inTitle \o <<" ">> \o inSummary)

HasGateTerm ==
    \E g \in SeqRange(MEDICARE_GATE_TERMS) : Contains(ClassifiedText, g)

HasPriorityOrKeywordTerm ==
    \E t \in SeqRange(HIGH_PRIORITY) \cup SeqRange(KEYWORDS) :
        Contains(ClassifiedText, Lower(t))

\* C6: under the Medicare rule set is_relevant_article returns true exactly
\* when the text contains a gate term (medicare, cms, centers for medicare)
\* and contains at least one HIGH_PRIORITY or KEYWORDS term; text with such a
\* term but no gate term is rejected.
C6_GateIsAndGate ==
    (cpc = "classified" /\ ruleSet = "medicare")
        => (verdict = (HasGateTerm /\ HasPriorityOrKeywordTerm))

\* C6 witness: a classified Medicare input that has a high-priority or
\* keyword term, has no gate term, and was rejected.
C6_Witness ==
    /\ cpc = "classified"
    /\ ruleSet = "medicare"
    /\ HasPriorityOrKeywordTerm
    /\ ~HasGateTerm
    /\ verdict = FALSE

\* C7: for either rule set, the result of is_relevant_article on an input
\* whose letters had their case changed equals the result on the input as
\* first given.
C7_CaseInsensitive ==
    cpc = "classified" => verdict = origVerdict

\* C7 witness: an accepted input was classified again after the case of one
\* of its letters was changed.
C7_Witness ==
    /\ cpc = "classified"
    /\ toggles > 0
    /\ <<inTitle, inSummary>> # <<origTitle, origSummary>>
    /\ origVerdict = TRUE

(***************************************************************************)
(* Properties of the Source Reader.                                        *)
(***************************************************************************)

\* collect_articles is running (a locator may be left) or has just returned
\* to main; nothing that main does afterwards changes what it gathered.
Collecting == pc = "collect"

CollectReturned ==
    variant \in FeedVariants
        /\ (pc = "synthesize" \/ outcome = "nothing_to_report")

\* The records collect_articles holds: the articles list while the loop over
\* the locators runs, the list as the loop left it afterwards.
Gathered == IF Collecting THEN articles ELSE collected

\* The entries of a feed the loop reads.
Scanned(feed) == Take(feed.entries, ScanLimit(variant))

\* The publication time of the entry is within 21 days of the run's now, at
\* the resolution of the clock.
WithinWindow(entry) ==
    PubDateOf(entry).k = "time"
        /\ today - PubDateOf(entry).v <= RecencyWindowDays * UnitsPerDay

\* The entry has no publication time at all.
Undated(entry) == PubDateOf(entry).k = "none"

\* The record of entry k of the i-th locator is among the gathered ones.
IsGathered(i, k) ==
    \E j \in 1..Len(Gathered) :
        Gathered[j] = ArticleOf(Entry(feedLog[i].feed.entries[k]),
                                FeedTitle(i))

\* C1: whichever locators raise, every relevant record within the window
\* (or undated) that the loop reads from a locator that does not raise is
\* among the collected records, at every point of the collection and at its
\* end; so are the records a raising locator yielded before it raised. A
\* failure neither stops the locators after it nor removes earlier records.
C1_FailureIsolation ==
    (Collecting \/ CollectReturned) =>
        \A i \in 1..Len(feedLog) :
            \A k \in 1..Len(Scanned(feedLog[i].feed)) :
                LET name == feedLog[i].feed.entries[k]
                IN  (/\ ~feedLog[i].raised \/ k < feedLog[i].raisedAt
                     /\ EntryIsRelevant(variant, name)
                     /\ WithinWindow(Entry(name)) \/ Undated(Entry(name)))
                        => IsGathered(i, k)

\* C1 witness: the collection ended; a locator raised, a later one did not,
\* and a relevant recent record of the later one was collected.
C1_Witness ==
    /\ CollectReturned
    /\ \E i, j \in 1..Len(feedLog) :
          /\ i < j
          /\ feedLog[i].raised
          /\ ~feedLog[j].raised
          /\ \E k \in 1..Len(Scanned(feedLog[j].feed)) :
                /\ feedLog[j].feed.entries[k] = "recent"
                /\ IsGathered(j, k)

\* The Source Reader of the run has returned no records.
YieldedNothing ==
    \/ variant \in FeedVariants /\ pc # "collect" /\ articles = <<>>
    \/ variant = "metrics" /\ records.k \in {"none", "list"}
                           /\ records.v = <<>>

\* C2: in the Medicare, pharmacy and metrics monitors, when the reader has
\* returned no records the run is over with the nothing-to-report outcome
\* and neither the synthesis call nor the delivery call has been made.
C2_NothingToReport ==
    YieldedNothing
        => /\ pc = "done"
           /\ outcome = "nothing_to_report"
           /\ synthCalls = 0
           /\ sendEmailCalls = 0
           /\ sendCalls = 0

\* C2 witness: a feed run in which a locator raised and the other yielded
\* only off-topic or old entries ended with nothing to report.
C2_Witness ==
    /\ variant \in FeedVariants
    /\ YieldedNothing
    /\ \E i \in 1..Len(feedLog) : feedLog[i].raised
    /\ \E i \in 1..Len(feedLog) : feedLog[i].feed.entries # <<>>
    /\ outcome = "nothing_to_report"

(***************************************************************************)
(* Properties of the synthesis call and of the Dispatcher.                 *)
(***************************************************************************)

MultiRecordVariants == FeedVariants \cup {"metrics"}

\* The text the synthesis function of the variant returns for an exception.
ErrorPlaceholder ==
    IF variant = "metrics" THEN ReportErrorPrefix \o ErrorMessage
    ELSE BriefErrorPrefix \o ErrorMessage

\* The document the renderer of the variant makes of the placeholder.
PlaceholderDocument ==
    IF variant = "metrics"
    THEN merlin_create_html_email(ErrorPlaceholder, Len(records.v))
    ELSE create_html_email(ErrorPlaceholder, articles)

\* The run went on after the synthesis call: a text was passed on and
\* rendered, and the run did not end before send_email was called.
WentOnToDelivery ==
    /\ synthesis # <<>>
    /\ html # <<>>
    /\ pc \in {"send", "done"}
    /\ pc = "done" => sendEmailCalls = 1

RanDispatcher == pc = "done" /\ html # <<>>

\* C4 as stated: send is invoked exactly once in every run that rendered a
\* document, and never more than once.
C4_SendExactlyOnce ==
    /\ sendCalls <= 1
    /\ RanDispatcher => sendCalls = 1

\* C4: a run that rendered a document calls send_email exactly once; the
\* channel's send_message is called at most once in any run, once when the
\* connection and the login succeeded and not at all when one of them
\* raised; a failed delivery is not tried again.
C4_OneDeliveryAttempt ==
    /\ sendCalls <= 1
    /\ sendEmailCalls <= 1
    /\ RanDispatcher
         => /\ sendEmailCalls = 1
            /\ sendCalls = SendMessageCalls(delivery)

\* C4 witness: a run rendered a document, send_message raised, and the run
\* ended with that single call.
C4_Witness ==
    /\ RanDispatcher
    /\ delivery = "send_error"
    /\ sendCalls = 1
    /\ sendEmailCalls = 1

InLog(line) == \E i \in 1..Len(log) : log[i] = line

DeliveryFailed == delivery \notin {"none", "sent"}

\* C5 as stated: in every variant a failed delivery is logged, no exception
\* leaves the run, and the success message is not printed.
C5_FailureNeverPropagates ==
    DeliveryFailed
        => /\ InLog("email_error") \/ InLog("main_error")
           /\ outcome # "raised"
           /\ ~InLog("success")

\* C5: in no variant is the success message printed after a failed
\* delivery. In the Medicare, pharmacy and metrics monitors send_email
\* prints the failure and returns False, and no exception leaves the run; in
\* the daily insight the exception leaves send_email, main prints it and
\* raises it again.
C5_FailureReported ==
    DeliveryFailed
        => /\ ~InLog("success")
           /\ ~InLog("email_sent")
           /\ ~InLog("insight_sent")
           /\ IF variant \in MultiRecordVariants
              THEN InLog("email_error") /\ outcome = "delivery_failed"
              ELSE InLog("main_error") /\ outcome = "raised"

\* C5 witness: the delivery of a metrics report failed at the login and the
\* run ended as a failed delivery.
C5_Witness ==
    /\ variant = "metrics"
    /\ delivery = "login_error"
    /\ pc = "done"
    /\ outcome = "delivery_failed"

(***************************************************************************)
(* Properties of the recency filter and of duplicate removal.              *)
(***************************************************************************)

\* Entry k of the i-th locator was read by the loop: it is within the scan
\* limit and no exception ended the locator's iteration before it.
WasRead(i, k) ==
    /\ k \in 1..Len(Scanned(feedLog[i].feed))
    /\ ~feedLog[i].raised \/ k < feedLog[i].raisedAt

EntryAt(i, k) == Entry(feedLog[i].feed.entries[k])

RelevantAt(i, k) == EntryIsRelevant(variant, feedLog[i].feed.entries[k])

\* The record of entry k of the i-th locator is in what collect_articles
\* returned.
IsReturned(i, k) ==
    /\ CollectReturned
    /\ \E j \in 1..Len(articles) :
          articles[j] = ArticleOf(EntryAt(i, k), FeedTitle(i))

\* The publication time of the entry is known and more than 21 days before
\* the run's now, at the resolution of the clock.
OlderThanWindow(entry) ==
    PubDateOf(entry).k = "time"
        /\ today - PubDateOf(entry).v > RecencyWindowDays * UnitsPerDay

\* C8 as stated: a relevant record whose known publication time is more than
\* 21 days before now, by however little, is not in the output of
\* collect_articles.
C8_OlderThanWindowExcluded ==
    \A i \in 1..Len(feedLog) :
        \A k \in 1..Len(feedLog[i].feed.entries) :
            (WasRead(i, k) /\ RelevantAt(i, k)
                /\ OlderThanWindow(EntryAt(i, k)))
                => ~IsReturned(i, k)

\* C9: an entry the loop read that has neither published_parsed nor
\* updated_parsed is among the records handed to duplicate removal exactly
\* when is_relevant_article accepts it: no recency check drops it, and
\* classification is not skipped for it.
C9_UndatedNotExcluded ==
    (Collecting \/ CollectReturned) =>
        \A i \in 1..Len(feedLog) :
            \A k \in 1..Len(feedLog[i].feed.entries) :
                (WasRead(i, k) /\ Undated(EntryAt(i, k)))
                    => (IsGathered(i, k) <=> RelevantAt(i, k))

\* C9 witness: the collection ended with the record of a relevant undated
\* entry collected, read after an undated entry that was rejected as not
\* relevant.
C9_Witness ==
    /\ CollectReturned
    /\ \E i \in 1..Len(feedLog) :
          /\ feedLog[i].feed.entries = <<"undated_off_topic", "undated">>
          /\ IsGathered(i, 2)
          /\ ~IsGathered(i, 1)

KeyOf(article) == simple_title(article.title)

\* The position in the collected records of the first one with that key.
FirstWithKey(key) ==
    CHOOSE f \in 1..Len(collected) :
        /\ KeyOf(collected[f]) = key
        /\ \A g \in 1..(f - 1) : KeyOf(collected[g]) # key

\* C10: duplicate removal keeps exactly one record for each normalized-title
\* key of the collected records; the record kept is the first collected one
\* with that key, unchanged, and the kept records stay in the order of
\* those first occurrences; removing duplicates from the result returns
\* the result.
C10_FirstWinsAndIdempotent ==
    CollectReturned =>
        /\ \A a, b \in 1..Len(unique_articles) :
              KeyOf(unique_articles[a]) = KeyOf(unique_articles[b]) => a = b
        /\ \A c \in 1..Len(collected) :
              \E a \in 1..Len(unique_articles) :
                  KeyOf(unique_articles[a]) = KeyOf(collected[c])
        /\ \A a \in 1..Len(unique_articles) :
              unique_articles[a]
                  = collected[FirstWithKey(KeyOf(unique_articles[a]))]
        /\ \A a, b \in 1..Len(unique_articles) :
              a < b => FirstWithKey(KeyOf(unique_articles[a]))
                         < FirstWithKey(KeyOf(unique_articles[b]))
        /\ RemoveDuplicates(unique_articles, <<>>) = unique_articles

\* C10 witness: two different records whose titles differ in case and
\* punctuation only were collected, and the first of them was kept.
C10_Witness ==
    /\ CollectReturned
    /\ \E c, e \in 1..Len(collected) :
          /\ c < e
          /\ collected[c] # collected[e]
          /\ collected[c].title # collected[e].title
          /\ KeyOf(collected[c]) = KeyOf(collected[e])
          /\ \E a \in 1..Len(unique_articles) :
                unique_articles[a] = collected[c]
          /\ \A a \in 1..Len(unique_articles) :
                unique_articles[a] # collected[e]

(***************************************************************************)
(* Properties of the Ranker.                                               *)
(***************************************************************************)

\* The record was made from an entry with neither published nor updated.
PublicationUnknown(article) == article.published = DateUnknown

\* C11 as stated: what collect_articles returns is in non-increasing order
\* of the publication string, and the records with no publication value are
\* one block at the low end, after every record that has one.
C11_UnknownAtLowEnd ==
    CollectReturned =>
        \A a, b \in 1..Len(articles) :
            a < b =>
                /\ ~StrLess(articles[a].published, articles[b].published)
                /\ PublicationUnknown(articles[a])
                      => PublicationUnknown(articles[b])

(***************************************************************************)
(* Properties of the renderer.                                             *)
(***************************************************************************)

TagsOf(parts) == [i \in 1..Len(parts) |-> parts[i].tag]

\* The number of lists open after the first n parts.
OpenLists(parts, n) ==
    Cardinality({i \in 1..n : parts[i].tag = "ul_open"})
        - Cardinality({i \in 1..n : parts[i].tag = "ul_close"})

\* A list is opened only when none is open and closed only when one is; an
\* item is emitted inside a list, a heading or a paragraph outside.
ListsAlternate(parts) ==
    \A i \in 1..Len(parts) :
        LET open == OpenLists(parts, i - 1)
        IN  /\ parts[i].tag = "ul_open" => open = 0
            /\ parts[i].tag \in {"ul_close", "li"} => open = 1
            /\ parts[i].tag \in {"h2", "p"} => open = 0

HeadingLine == <<"#","#"," ","H">>

PlainLine == <<"p">>

PlainBulletLines == { <<"-"," ","a">>, <<"*"," ","*","*","b","*","*">> }

\* One heading line, three bullet lines and one plain line, in that order.
IsHeadingThreeBulletsPlain(ls) ==
    /\ Len(ls) = 5
    /\ ls[1] = HeadingLine
    /\ \A i \in 2..4 : ls[i] \in PlainBulletLines
    /\ ls[5] = PlainLine

\* C12: for every text, in the narrative both renderers emit, list-open and
\* list-close alternate starting with open, every item is inside a list, no
\* heading or paragraph is inside one, in_list tells whether a list is open,
\* and no list is open at the end; a heading line, three bullet lines and a
\* plain line give one heading, one list of three items and one paragraph.
C12_ListsWellFormed ==
    /\ rpc = "loop" =>
          /\ ListsAlternate(rparts)
          /\ OpenLists(rparts, Len(rparts)) = (IF rInList THEN 1 ELSE 0)
    /\ rpc = "done" =>
          /\ ListsAlternate(rdoc)
          /\ OpenLists(rdoc, Len(rdoc)) = 0
          /\ IsHeadingThreeBulletsPlain(rlines)
                => TagsOf(rdoc) = <<"h2", "ul_open", "li", "li", "li",
                                    "ul_close", "p">>

\* C12 witness: the text of a heading line, three bullet lines and a plain
\* line was rendered to the end.
C12_Witness ==
    /\ rpc = "done"
    /\ IsHeadingThreeBulletsPlain(rlines)
    /\ Len(rdoc) = 7

IsItemTitle(part) == part.tag = "item_title"

IsItemSource(part) == part.tag = "item_source"

IsItemLink(part) == part.tag = "item_link"

\* A feed monitor has rendered its document.
BriefRendered == variant \in FeedVariants /\ html # <<>>

\* C13: the document of a feed monitor lists the records collect_articles
\* returned, one entry each, in ranked order, numbered 1, 2, ... with the
\* record's title, source, publication string and link, whatever the
\* synthesis text is.
C13_ListingPerRecord ==
    BriefRendered =>
        LET titles == SelectSeq(html, IsItemTitle)
            sources == SelectSeq(html, IsItemSource)
            links == SelectSeq(html, IsItemLink)
        IN  /\ Len(titles) = Len(articles)
            /\ Len(sources) = Len(articles)
            /\ Len(links) = Len(articles)
            /\ articles = SortByPublishedDesc(unique_articles)
            /\ \A i \in 1..Len(articles) :
                  /\ titles[i].num = i
                  /\ titles[i].text = articles[i].title
                  /\ sources[i].text = articles[i].source \o <<" ","|"," ">>
                                          \o articles[i].published
                  /\ links[i].text = articles[i].link

\* C13 witness: seven records were collected, two of them duplicates by
\* normalized title; the text-generation call returned the empty text and
\* the document lists five entries numbered 1 to 5.
C13_Witness ==
    /\ BriefRendered
    /\ Len(collected) = 7
    /\ Len(unique_articles) = 5
    /\ synthesis = EmptyText
    /\ ~synthRaised
    /\ [i \in 1..5 |-> SelectSeq(html, IsItemTitle)[i].num] = <<1, 2, 3, 4, 5>>
    /\ Len(SelectSeq(html, IsItemTitle)) = 5

(***************************************************************************)
(* The sheet reader's rows.                                                *)
(***************************************************************************)

\* read_sheet_data has returned a list for the sheet of this run.
SheetParsed == variant = "metrics" /\ records.k = "list"

\* The "Skipping invalid row" lines printed so far.
SkippedLines == SelectSeq(log, LAMBDA l : l = "skipped_row")

\* The data rows of the sheet that did not become a record: those with
\* fewer than seven cells and those with a counter that is not an integer.
RejectedRows ==
    SelectSeq(Tail(sheet),
              LAMBDA row : Len(row) < 7
                           \/ \E i \in 2..7 : ~IsIntLiteral(row[i]))

AcceptedRows ==
    SelectSeq(Tail(sheet),
              LAMBDA row : Len(row) >= 7
                           /\ \A i \in 2..7 : IsIntLiteral(row[i]))

\* C14: in read_sheet_data the header row never becomes a record, a data
\* row becomes a record only if it has at least 7 columns, and every data
\* row that is rejected, for too few columns or for a counter that is not an
\* integer, is skipped with one logged warning, the rows after it still
\* being processed.
C14_RejectedRowsLogged ==
    SheetParsed =>
        /\ Len(records.v) = Len(AcceptedRows)
        /\ \A i \in 1..Len(records.v) :
              records.v[i].date = AcceptedRows[i][1]
        /\ Len(SkippedLines) = Len(RejectedRows)

\* What the reader does with its rows: the header row is never a record, the
\* rows of at least 7 columns whose counters are integers are the records in
\* sheet order, and one warning is logged for each row of at least 7 columns
\* with a counter that is not an integer.
C14_Observed ==
    SheetParsed =>
        /\ Len(records.v) = Len(AcceptedRows)
        /\ \A i \in 1..Len(records.v) :
              records.v[i].date = AcceptedRows[i][1]
        /\ Len(SkippedLines)
              = Len(SelectSeq(RejectedRows, LAMBDA row : Len(row) >= 7))

(***************************************************************************)
(* Titles of the collected records.                                        *)
(***************************************************************************)

\* C15: every record that reaches the classifier has a non-empty title; an
\* entry whose title is missing or empty is dropped before
\* is_relevant_article is called and is in no record collect_articles
\* holds or returns.
C15_NoEmptyTitle ==
    (Collecting \/ CollectReturned) =>
        /\ \A j \in 1..Len(Gathered) : Gathered[j].title # <<>>
        /\ \A i \in 1..Len(feedLog) :
              \A k \in 1..Len(feedLog[i].feed.entries) :
                  (WasRead(i, k) /\ EntryAt(i, k).title = <<>>)
                      => ~IsReturned(i, k)

(***************************************************************************)
(* The order of the returned records in time.                              *)
(***************************************************************************)

\* The entries the loop read whose record is the given one.
EntriesOf(article) ==
    { p \in UNION { {<<i, k>> : k \in 1..Len(feedLog[i].feed.entries)} :
                      i \in 1..Len(feedLog) } :
        /\ WasRead(p[1], p[2])
        /\ ArticleOf(EntryAt(p[1], p[2]), FeedTitle(p[1])) = article }

\* The entry's record was published strictly later than the other's, both
\* publication times being known.
PublishedLater(p, q) ==
    /\ PubDateOf(EntryAt(p[1], p[2])).k = "time"
    /\ PubDateOf(EntryAt(q[1], q[2])).k = "time"
    /\ PubDateOf(EntryAt(p[1], p[2])).v > PubDateOf(EntryAt(q[1], q[2])).v

\* C16: what collect_articles returns is ordered most recent first: of two
\* returned records with known publication times, the one published later
\* is never after the one published earlier.
C16_MostRecentFirst ==
    CollectReturned =>
        \A a, b \in 1..Len(articles) :
            a < b =>
                \A p \in EntriesOf(articles[a]) :
                    \A q \in EntriesOf(articles[b]) : ~PublishedLater(q, p)

(***************************************************************************)
(* The exclusion terms of the pharmacy rule set.                           *)
(***************************************************************************)

\* The latest call was made with the pharmacy rule set on the input the
\* state holds.
PharmacyClassified == cpc = "classified" /\ ruleSet = "pharmacy"

\* The return statements of the pharmacy classifier that come before the
\* test of the exclusion terms.
EarlierClauses == {"medicare", "ai_pharmacy", "pharmacy_technology"}

\* One of the accepting conditions of the pharmacy rules holds of the
\* lowered text.
PharmacyAccepts ==
    LET text == ClassifiedText
        pharmacy == \E k \in 1..Len(PHARMACY_KEYWORDS) :
                        Contains(text, Lower(PHARMACY_KEYWORDS[k]))
    IN  \/ \E k \in 1..Len(MEDICARE_KEYWORDS) :
              Contains(text, Lower(MEDICARE_KEYWORDS[k]))
        \/ pharmacy /\ \E k \in 1..Len(AI_TERMS) : Contains(text, AI_TERMS[k])
        \/ pharmacy /\ \E k \in 1..Len(TECHNOLOGY_TERMS) :
                          Contains(text, TECHNOLOGY_TERMS[k])

\* An exclusion term, as written in the list, is in the lowered text.
HasExcludeTerm ==
    \E k \in 1..Len(exclude_terms) : Contains(ClassifiedText, exclude_terms[k])

\* C17 as stated: in the pharmacy rule set the test of the exclusion terms
\* is never reached; for every title and summary one of the clauses before
\* it returns the decision.
C17_ExclusionUnreachable ==
    PharmacyClassified => decidedBy \in EarlierClauses

\* C17: in the pharmacy rule set the test of the exclusion terms is reached
\* exactly when no accepting clause holds, and it never changes the decision:
\* the input is accepted exactly when an accepting clause holds, whether or
\* not an exclusion term is in the text, and the call leaves by the
\* exclusion clause exactly when it is rejected with an exclusion term.
C17_ExclusionHasNoEffect ==
    PharmacyClassified =>
        /\ verdict = PharmacyAccepts
        /\ decidedBy \in EarlierClauses <=> PharmacyAccepts
        /\ decidedBy = "exclude" <=> (~PharmacyAccepts /\ HasExcludeTerm)
        /\ decidedBy = "default" <=> (~PharmacyAccepts /\ ~HasExcludeTerm)

\* C17 witness: a call left by the exclusion clause and rejected its input,
\* and the input has an exclusion term.
C17_Witness ==
    /\ PharmacyClassified
    /\ decidedBy = "exclude"
    /\ ~verdict
    /\ HasExcludeTerm

\* An input with an exclusion term that an accepting clause accepts.
C17_AcceptedWithExcludeTerm ==
    /\ PharmacyClassified
    /\ HasExcludeTerm
    /\ verdict

(***************************************************************************)
(* Bold markers in list items.                                             *)
(***************************************************************************)

\* The number of leftmost non-overlapping occurrences of sub in s.
RECURSIVE Occurrences(_, _)
Occurrences(s, sub) ==
    IF Len(s) < Len(sub) THEN 0
    ELSE IF StartsWith(s, sub)
    THEN 1 + Occurrences(SubSeq(s, Len(sub) + 1, Len(s)), sub)
    ELSE Occurrences(Tail(s), sub)

\* The line the loop processed last, stripped.
LastLine == Strip(rlines[Len(rlines)])

\* The loop has just emitted a list item for its last line.
EmittedItem ==
    /\ rlines # <<>>
    /\ LastLine # <<>>
    /\ ~(StartsWith(LastLine, <<"#","#">>)
          \/ \E k \in 1..Len(SectionTitles(rkind)) :
                Contains(LastLine, SectionTitles(rkind)[k]))
    /\ LastLine[1] \in {Bullet, "-", "*"}

\* C18: for every bullet line each pair of bold markers in the item text
\* becomes a balanced bold span, the first marker an opening tag and the
\* second a closing tag: the emitted item has as many closing bold tags as
\* opening ones, one of each for every pair of markers.
C18_BoldBalanced ==
    /\ \A i \in 1..Len(rparts) :
          rparts[i].tag = "li"
              => Occurrences(rparts[i].text, StrongClose)
                   = Occurrences(rparts[i].text, StrongOpen)
    /\ EmittedItem =>
          LET item == rparts[Len(rparts)]
              pairs == Occurrences(Strip(Tail(LastLine)), <<"*","*">>) \div 2
          IN  /\ item.tag = "li"
              /\ Occurrences(item.text, StrongOpen) = pairs
              /\ Occurrences(item.text, StrongClose) = pairs

\* What the loop emits for a bullet line: every bold marker of the item
\* text becomes an opening tag and no closing tag is emitted.
C18_Observed ==
    EmittedItem =>
        LET item == rparts[Len(rparts)]
            markers == Occurrences(Strip(Tail(LastLine)), <<"*","*">>)
        IN  /\ item.tag = "li"
            /\ Occurrences(item.text, StrongOpen) = markers
            /\ Occurrences(item.text, StrongClose) = 0

(***************************************************************************)
(* Blank lines of the narrative.                                           *)
(***************************************************************************)

\* The line is empty or has only whitespace characters.
IsBlank(ln) == \A j \in 1..Len(ln) : ln[j] \in {" ", "\t", "\r"}

\* The lines are blank lines and plain bullet lines, the first and the last
\* a bullet line and at least one blank line among them.
IsBulletsAroundBlanks(ls) ==
    /\ Len(ls) >= 3
    /\ ls[1] \in PlainBulletLines
    /\ ls[Len(ls)] \in PlainBulletLines
    /\ \E i \in 2..(Len(ls) - 1) : IsBlank(ls[i])
    /\ \A i \in 1..Len(ls) : IsBlank(ls[i]) \/ ls[i] \in PlainBulletLines

BulletLineCount(ls) == Cardinality({i \in 1..Len(ls) : ~IsBlank(ls[i])})

\* C19: an empty or whitespace-only line emits nothing and leaves in_list
\* unchanged; bullet lines separated only by blank lines are the items of
\* one list, with no list-close or list-open between them.
C19_BlankLineSkipped ==
    /\ (rlines # <<>> /\ IsBlank(rlines[Len(rlines)])) =>
          /\ rparts = rprevParts
          /\ rInList = rprevInList
    /\ (rpc = "done" /\ IsBulletsAroundBlanks(rlines)) =>
          /\ Len(rdoc) = BulletLineCount(rlines) + 2
          /\ rdoc[1].tag = "ul_open"
          /\ rdoc[Len(rdoc)].tag = "ul_close"
          /\ \A i \in 2..(Len(rdoc) - 1) : rdoc[i].tag = "li"

\* C19 witness: a bullet line, an empty line, a whitespace-only line and a
\* bullet line were rendered as one list of two items, the blank lines
\* having been processed while the list was open.
C19_Witness ==
    /\ rpc = "done"
    /\ Len(rlines) = 4
    /\ rlines[1] \in PlainBulletLines
    /\ rlines[2] = <<>>
    /\ rlines[3] = <<" ", "\t">>
    /\ rlines[4] \in PlainBulletLines
    /\ TagsOf(rdoc) = <<"ul_open", "li", "li", "ul_close">>
    /\ rInList

(***************************************************************************)
(* Heading lines that start with a bullet glyph.                           *)
(***************************************************************************)

\* The stripped line starts with the heading marker or has a section title
\* of the renderer in it.
LooksLikeHeading(ln) ==
    \/ StartsWith(ln, <<"#","#">>)
    \/ \E k \in 1..Len(SectionTitles(rkind)) :
          Contains(ln, SectionTitles(rkind)[k])

\* The loop has just processed a line that starts with a bullet glyph and
\* has a section title in it.
BulletHeadingLast ==
    /\ rlines # <<>>
    /\ LastLine # <<>>
    /\ LastLine[1] \in {Bullet, "-", "*"}
    /\ LooksLikeHeading(LastLine)

\* C20: the heading test comes before the bullet test: a line that starts
\* with a bullet glyph and has a section title in it, or starts with the
\* heading marker, is emitted as a heading after the close of a list that
\* was open, leaves in_list false, and is not emitted as a list item.
C20_HeadingBeforeBullet ==
    (rlines # <<>> /\ LastLine # <<>> /\ LooksLikeHeading(LastLine)) =>
        LET closing == IF rprevInList THEN 1 ELSE 0
        IN  /\ Len(rparts) = Len(rprevParts) + closing + 1
            /\ SubSeq(rparts, 1, Len(rprevParts)) = rprevParts
            /\ rprevInList => rparts[Len(rparts) - 1].tag = "ul_close"
            /\ rparts[Len(rparts)].tag = "h2"
            /\ ~rInList

\* C20 witness: with a list open, a line that starts with the bullet glyph
\* and has a section title in it was emitted as a heading after the close of
\* the list.
C20_Witness ==
    /\ BulletHeadingLast
    /\ rprevInList
    /\ ~rInList
    /\ rparts[Len(rparts)].tag = "h2"
    /\ rparts[Len(rparts) - 1].tag = "ul_close"

(***************************************************************************)
(* Duplicate removal after the relevance and recency tests.                *)
(***************************************************************************)

\* The normalized-title key of entry k of the i-th locator.
EntryKey(i, k) == simple_title(Get(EntryAt(i, k).title, Str(<<>>)).v)

\* The entry was published at a known time 22 whole days or more before the
\* run's now.
AgedOut(entry) ==
    /\ PubDateOf(entry).k = "time"
    /\ today - PubDateOf(entry).v >= (RecencyWindowDays + 1) * UnitsPerDay

\* The loop read the entry and did not keep it: the classifier rejected it
\* or it is older than the window.
FilteredOut(i, k) ==
    WasRead(i, k) /\ (~RelevantAt(i, k) \/ AgedOut(EntryAt(i, k)))

\* Entry k2 of locator i2 comes before entry k of locator i in source order.
ReadBefore(i2, k2, i, k) == i2 < i \/ (i2 = i /\ k2 < k)

\* Every entry read before entry k of locator i with the same key was
\* filtered out.
FirstRetainedOfKey(i, k) ==
    \A i2 \in 1..i :
        \A k2 \in 1..Len(feedLog[i2].feed.entries) :
            (/\ ReadBefore(i2, k2, i, k)
             /\ WasRead(i2, k2)
             /\ EntryKey(i2, k2) = EntryKey(i, k))
                => FilteredOut(i2, k2)

\* C21: duplicate removal sees only the records that passed the relevance
\* and recency tests: no record of a filtered-out entry is among the
\* collected ones, and a relevant entry within the window whose earlier
\* entries of the same normalized-title key were all filtered out has its
\* record in what collect_articles returns.
C21_FilteredNeverShadows ==
    CollectReturned =>
        /\ \A i \in 1..Len(feedLog) :
              \A k \in 1..Len(feedLog[i].feed.entries) :
                  /\ FilteredOut(i, k) => ~IsGathered(i, k)
                  /\ (/\ WasRead(i, k)
                      /\ RelevantAt(i, k)
                      /\ WithinWindow(EntryAt(i, k))
                      /\ FirstRetainedOfKey(i, k))
                         => IsReturned(i, k)
        /\ unique_articles = RemoveDuplicates(collected, <<>>)

\* C21 witness: the first locator yielded a relevant entry 22 days old, the
\* second a relevant entry one day old with the same key; the older was
\* dropped and the record of the later one is the one returned.
C21_Witness ==
    /\ CollectReturned
    /\ Len(feedLog) = 2
    /\ feedLog[1].feed.entries = <<"old">>
    /\ feedLog[2].feed.entries = <<"recent">>
    /\ EntryKey(1, 1) = EntryKey(2, 1)
    /\ RelevantAt(1, 1) /\ AgedOut(EntryAt(1, 1))
    /\ collected = <<ArticleOf(EntryAt(2, 1), FeedTitle(2))>>
    /\ articles = collected

====
